---- MODULE Spec2Model ----
(***************************************************************************)
(* A model of the digital-library client (src/UI/script.js): the in-memory *)
(* collection libraryItems, the structured filter (applyFilters), the two  *)
(* free-text searches (performSearch, performOverlaySearch) and the        *)
(* asynchronous delete (deleteLibraryItem) against the Supabase table.     *)
(*                                                                         *)
(* JavaScript values are tagged records [k, n, s]: k is the type, n the    *)
(* number in tenths (4.5 is 45), s the string as a sequence of characters. *)
(***************************************************************************)
EXTENDS Integers, Sequences, FiniteSets, TLC

\* ------------------------------------------------------------------ values

Undefined == [k |-> "undefined", n |-> 0, s |-> <<>>]
Null == [k |-> "null", n |-> 0, s |-> <<>>]
NaN == [k |-> "nan", n |-> 0, s |-> <<>>]
Num(n) == [k |-> "number", n |-> n, s |-> <<>>]
Str(s) == [k |-> "string", n |-> 0, s |-> s]

\* JavaScript truthiness: undefined, null, NaN, 0 and '' are falsy.
Truthy(v) ==
    CASE v.k = "undefined" -> FALSE
      [] v.k = "null" -> FALSE
      [] v.k = "nan" -> FALSE
      [] v.k = "number" -> v.n # 0
      [] OTHER -> v.s # <<>>

\* a || b
OrElse(a, b) == IF Truthy(a) THEN a ELSE b

\* a === b
StrictEq(a, b) ==
    /\ a.k = b.k
    /\ a.k # "nan"
    /\ a.n = b.n
    /\ a.s = b.s

Digits == <<"0", "1", "2", "3", "4", "5", "6", "7", "8", "9">>

IsDigit(c) == \E i \in 1..10 : Digits[i] = c

DigitVal(c) == (CHOOSE i \in 1..10 : Digits[i] = c) - 1

\* The length of the longest prefix of s made of digits.
RECURSIVE DigitPrefixLen(_)
DigitPrefixLen(s) ==
    IF s = <<>> \/ ~IsDigit(Head(s)) THEN 0 ELSE 1 + DigitPrefixLen(Tail(s))

\* The value of a sequence of digits.
RECURSIVE DigitsValue(_)
DigitsValue(s) ==
    IF s = <<>> THEN 0 ELSE 10 * DigitsValue(SubSeq(s, 1, Len(s) - 1)) + DigitVal(s[Len(s)])

\* The decimal text of a natural number.
RECURSIVE NatToString(_)
NatToString(n) ==
    IF n < 10 THEN <<Digits[n + 1]>> ELSE NatToString(n \div 10) \o <<Digits[(n % 10) + 1]>>

\* Number.prototype.toString for a non-negative number held in tenths.
NumberToString(n) ==
    IF n % 10 = 0 THEN NatToString(n \div 10)
    ELSE NatToString(n \div 10) \o <<".">> \o <<Digits[(n % 10) + 1]>>

\* x?.toString(): undefined for null and undefined.
OptToString(v) ==
    CASE v.k = "undefined" -> Undefined
      [] v.k = "null" -> Undefined
      [] v.k = "number" -> Str(NumberToString(v.n))
      [] v.k = "nan" -> Str(<<"N", "a", "N">>)
      [] OTHER -> v

\* `${x}`: the string a template literal makes of x.
TemplateString(v) ==
    CASE v.k = "undefined" -> Str(<<"u", "n", "d", "e", "f", "i", "n", "e", "d">>)
      [] v.k = "null" -> Str(<<"n", "u", "l", "l">>)
      [] OTHER -> OptToString(v)

\* parseInt of a string: its leading digits, NaN when there are none.
ParseIntString(s) ==
    LET p == DigitPrefixLen(s)
    IN  IF p = 0 THEN NaN ELSE Num(10 * DigitsValue(SubSeq(s, 1, p)))

\* parseInt(v): v is turned into a string first.
ParseInt(v) ==
    CASE v.k = "number" -> Num(10 * (v.n \div 10))
      [] v.k = "string" -> ParseIntString(v.s)
      [] OTHER -> NaN

\* parseFloat of a string: leading digits, then an optional point and digits (one
\* decimal is kept).
ParseFloatString(s) ==
    LET p == DigitPrefixLen(s)
        rest == SubSeq(s, p + 1, Len(s))
        frac == IF rest # <<>> /\ Head(rest) = "." /\ Len(rest) >= 2 /\ IsDigit(rest[2])
                THEN DigitVal(rest[2]) ELSE 0
    IN  IF p = 0 THEN NaN ELSE Num(10 * DigitsValue(SubSeq(s, 1, p)) + frac)

\* parseFloat(v): v is turned into a string first.
ParseFloat(v) ==
    CASE v.k = "number" -> v
      [] v.k = "string" -> ParseFloatString(v.s)
      [] OTHER -> NaN

\* ToNumber of a string: '' is 0, a decimal numeral is its value, anything else NaN.
StringToNumber(s) ==
    LET p == DigitPrefixLen(s)
        rest == SubSeq(s, p + 1, Len(s))
    IN  IF s = <<>> THEN Num(0)
        ELSE IF p = 0 THEN NaN
        ELSE IF rest = <<>> THEN Num(10 * DigitsValue(s))
        ELSE IF Len(rest) = 2 /\ Head(rest) = "." /\ IsDigit(rest[2])
             THEN Num(10 * DigitsValue(SubSeq(s, 1, p)) + DigitVal(rest[2]))
        ELSE NaN

\* ToNumber(v), as the relational operators apply it.
ToNumber(v) ==
    CASE v.k = "number" -> v
      [] v.k = "string" -> StringToNumber(v.s)
      [] v.k = "null" -> Num(0)
      [] OTHER -> NaN

\* a < b with b a number: false when either side is NaN.
LessThan(a, b) ==
    LET x == ToNumber(a)
        y == ToNumber(b)
    IN  x.k = "number" /\ y.k = "number" /\ x.n < y.n

\* a > b with b a number: false when either side is NaN.
GreaterThan(a, b) == LessThan(b, a)

\* ----------------------------------------------------------------- strings

UpperCase == <<"A", "B", "C", "D", "E", "F", "G", "H", "I", "J", "K", "L", "M",
               "N", "O", "P", "Q", "R", "S", "T", "U", "V", "W", "X", "Y", "Z">>

LowerCase == <<"a", "b", "c", "d", "e", "f", "g", "h", "i", "j", "k", "l", "m",
               "n", "o", "p", "q", "r", "s", "t", "u", "v", "w", "x", "y", "z">>

LowerChar(c) ==
    IF \E i \in 1..Len(UpperCase) : UpperCase[i] = c
    THEN LowerCase[CHOOSE i \in 1..Len(UpperCase) : UpperCase[i] = c]
    ELSE c

\* String.prototype.toLowerCase
toLowerCase(s) == [i \in 1..Len(s) |-> LowerChar(s[i])]

\* String.prototype.includes
includes(hay, needle) ==
    \E i \in 0..(Len(hay) - Len(needle)) : SubSeq(hay, i + 1, i + Len(needle)) = needle

RECURSIVE TrimStart(_)
TrimStart(s) == IF s # <<>> /\ Head(s) = " " THEN TrimStart(Tail(s)) ELSE s

RECURSIVE TrimEnd(_)
TrimEnd(s) ==
    IF s # <<>> /\ s[Len(s)] = " " THEN TrimEnd(SubSeq(s, 1, Len(s) - 1)) ELSE s

\* String.prototype.trim
trim(s) == TrimEnd(TrimStart(s))

\* ------------------------------------------------------------------- items

Empty == Str(<<>>)
all == Str(<<"a", "l", "l">>)
book == Str(<<"b", "o", "o", "k">>)
paper == Str(<<"p", "a", "p", "e", "r">>)
Book == Str(<<"B", "o", "o", "k">>)
unread == Str(<<"u", "n", "r", "e", "a", "d">>)
finished == Str(<<"f", "i", "n", "i", "s", "h", "e", "d">>)
english == Str(<<"e", "n", "g", "l", "i", "s", "h">>)
medium == Str(<<"m", "e", "d", "i", "u", "m">>)
easy == Str(<<"e", "a", "s", "y">>)
hard == Str(<<"h", "a", "r", "d">>)
catAI == Str(<<"A", "I">>)

\* Rows of the libraries table (SQL NULL is Null). title and type are NOT NULL,
\* type is 'book' or 'paper', rating is NULL or in 0..5, difficulty NULL or in 1..5.
DbRow(id, title, author, type, category, py, year, status, language, rating, difficulty) ==
    [id |-> Str(id), title |-> Str(title), author |-> author, type |-> type,
     category |-> category, publishing_year |-> py, year |-> year, status |-> status,
     language |-> language, rating |-> rating, difficulty |-> difficulty]

DbRows ==
    { DbRow(<<"u", "1">>, <<"D", "u", "n", "e">>, Str(<<"H", "e", "r", "b">>), book,
            Str(<<"S", "F">>), Str(<<"1", "9", "6", "5">>), Null, finished, english,
            Num(45), Num(20)),
      DbRow(<<"u", "2">>, <<"A", "t", "t", "n">>, Null, paper,
            Null, Null, Num(20170), Null, Null, Null, Null),
      DbRow(<<"u", "3">>, <<"A", "I">>, Str(<<"N", "g">>), book,
            catAI, Null, Null, finished, Null, Num(50), Num(40)) }

\* loadLibraryData: the app item made of a row.
LoadItem(row) ==
    [id |-> row.id,
     title |-> row.title,
     author |-> OrElse(row.author, Empty),
     type |-> row.type,
     publishingYear |-> OrElse(OrElse(row.publishing_year, OptToString(row.year)), Empty),
     year |-> Undefined,
     rating |-> OrElse(OptToString(row.rating), Str(<<"0">>)),
     difficulty |-> OrElse(OptToString(row.difficulty), medium),
     language |-> OrElse(row.language, Empty),
     category |-> OrElse(row.category, Empty),
     status |-> OrElse(row.status, unread)]

\* What the user can put in the add/edit form: the text fields are strings, the
\* rating is the form's data-rating attribute (null when no star was clicked).
FormInput(title, author, type, category, status, language, rating, difficulty) ==
    [title |-> Str(title), author |-> author, type |-> type, category |-> category,
     publishingYear |-> Empty, status |-> status, language |-> language,
     rating |-> rating, difficulty |-> difficulty]

FormInputs ==
    { FormInput(<<"Z", "e", "n">>, Empty, Book, Empty, Empty, Empty, Null, Empty),
      FormInput(<<"T", "A", "O", "C", "P">>, Str(<<"K", "n", "u", "t", "h">>), book, catAI,
                unread, english, Str(<<"4">>), Str(<<"9">>)) }

\* The submit handler's itemData for a form input and an id.
FormItem(f, id) ==
    [id |-> id,
     title |-> f.title,
     author |-> f.author,
     type |-> f.type,
     category |-> f.category,
     publishingYear |-> f.publishingYear,
     year |-> Undefined,
     status |-> f.status,
     difficulty |-> IF Truthy(f.difficulty) THEN ParseInt(f.difficulty) ELSE Null,
     language |-> f.language,
     rating |-> IF Truthy(f.rating) THEN ParseFloat(f.rating) ELSE Null]

\* JSON.parse(savedData): what loadLibraryData takes from localStorage when the
\* table cannot be read. The stored array is whatever an earlier session or an
\* imported backup left there; a key the JSON object lacks reads as undefined.
StoredItems ==
    { [id |-> Num(240), title |-> Str(<<"M", "L">>), author |-> Undefined, type |-> Book,
       category |-> Undefined, publishingYear |-> Undefined, year |-> Num(20180),
       status |-> Undefined, difficulty |-> Undefined, language |-> Undefined,
       rating |-> Undefined] }

\* ------------------------------------------------------------------ state

VARIABLES
    libraryItems,     \* the in-memory collection (script.js:15)
    activeFilters,    \* the filter configuration (script.js:316)
    currentView,      \* localStorage 'currentView' || 'masonry'
    masonryCards,     \* the .masonry-item cards of #masonry-grid, in DOM order
    planetParticles,  \* the items whose particles #knowledge-planet holds
    filteredItems,    \* applyFilters' filteredItems, as last computed
    searchResults,    \* what #search-results shows
    overlayActive,    \* #overlay-search carries 'active'
    db,               \* the user's rows of the libraries table, newest first
    nextId,           \* the number of the next id the table hands out
    pendingDeletes,   \* deleteLibraryItem calls awaiting the backend's answer
    pendingAdds,      \* addLibraryItem calls awaiting the backend's answer
    currentEditingItem, \* window.currentEditingItem: <<>> for null, else <<item>>
    currentUser,      \* a session's user is held (script.js:18); FALSE for null
    localStorage,     \* the array stored under 'digitalLibrary'; <<>> when absent
    location,         \* the page the window shows: "index" or "landing"
    addModalInput,    \* the value of #add-modal-search
    addModalSearchTimeout, \* the timers set by the input handler and not yet run or
                      \* cleared: records of the query and the time left
    sinceKeystroke,   \* the time since the last input event, up to DebounceDelay
    inFlight,         \* the queries of the performAddModalSearch calls awaiting
                      \* their external search, oldest first
    lastQuery,        \* the query of the latest performAddModalSearch call
    addModalResults,  \* what #add-modal-search-results shows
    serviceCall,      \* the last call of a server-side service, with what the
                      \* service it calls did
    serviceReply,     \* what that call gave its caller
    modalOpen,        \* the modal openModal shows: "none" while all are hidden
    filterDropdownActive, \* #filter-dropdown carries 'active'
    sidebarDisabled,  \* #main-nav carries 'sidebar-disabled'
    cameraModalActive, \* #camera-modal carries 'active'
    currentStream,    \* the stream currentStream holds (script.js:3121); 0 for null
    liveStreams,      \* the streams acquired whose tracks have not been stopped
    pendingCamera,    \* the initializeCamera calls awaiting the camera
    nextStream,       \* the number of the next stream getUserMedia hands out
    capturedImageData, \* an image is held (script.js:3122); FALSE for null
    processBtnShown,  \* #process-btn is displayed
    clickListeners,   \* the click listeners of the camera modal's buttons, in the
                      \* order they were added: records of the button and the callback
    scanRequests,     \* the POSTs to /api/scan awaiting their response
    handlerRuns,      \* how many listeners the last click on a button ran
    notification,     \* the last showNotification
    uncaught,         \* the last handler ended in an uncaught TypeError
    lastOp            \* the handler that ran last, with its arguments

filterVars == <<activeFilters, filteredItems>>

viewVars == <<currentView, masonryCards, planetParticles>>

searchVars == <<searchResults, overlayActive>>

crudVars == <<db, nextId, pendingDeletes, pendingAdds, currentEditingItem>>

sessionVars == <<currentUser, localStorage, location>>

addModalVars == <<addModalInput, addModalSearchTimeout, sinceKeystroke, inFlight,
                  lastQuery, addModalResults>>

\* What the handlers of the library page never write.
serviceVars == <<serviceCall, serviceReply>>

sidebarVars == <<modalOpen, filterDropdownActive, sidebarDisabled>>

cameraVars == <<cameraModalActive, currentStream, liveStreams, pendingCamera, nextStream,
                capturedImageData, processBtnShown, clickListeners, scanRequests,
                handlerRuns>>

elsewhereVars == <<sessionVars, addModalVars, serviceVars, sidebarVars, cameraVars>>

vars == <<libraryItems, filterVars, viewVars, searchVars, crudVars, elsewhereVars,
          notification, uncaught, lastOp>>

\* The sequences of distinct elements of S of length at most n.
DistinctSeqs(S, n) ==
    UNION { { q \in [1..m -> S] : \A i, j \in 1..m : i # j => q[i] # q[j] } : m \in 0..n }

\* Array.prototype.map
Map(f(_), q) == [i \in 1..Len(q) |-> f(q[i])]

\* ----------------------------------------------------------------- filters

FilterFields == {"type", "status", "rating", "difficulty", "language", "category"}

NoFilters ==
    [type |-> all, status |-> all, rating |-> all, difficulty |-> all,
     language |-> all, category |-> all]

\* a !== b
StrictNe(a, b) == ~StrictEq(a, b)

\* The type, status, language and category tests of the filter callback:
\* activeFilters.x !== 'all' && item.x !== activeFilters.x rejects the item.
EqualityRejects(item, f, field) ==
    StrictNe(f[field], all) /\ StrictNe(item[field], f[field])

\* The rating test of the filter callback.
RatingRejectsLessOrEqual(item, f) ==
    /\ StrictNe(f.rating, all)
    /\ LET ratingThreshold == ParseInt(f.rating)
       IN  ~Truthy(item.rating) \/ ~GreaterThan(item.rating, ratingThreshold)

RatingRejects(item, f) ==
    /\ StrictNe(f.rating, all)
    /\ LET ratingThreshold == ParseInt(f.rating)
       IN  ~Truthy(item.rating) \/ LessThan(item.rating, ratingThreshold)

\* The difficulty test of the filter callback.
DifficultyRejects(item, f) ==
    /\ StrictNe(f.difficulty, all)
    /\ \/ ~Truthy(item.difficulty)
       \/ LET difficulty == ParseInt(item.difficulty)
          IN  \/ StrictEq(f.difficulty, easy)
                   /\ (LessThan(difficulty, Num(10)) \/ GreaterThan(difficulty, Num(30)))
              \/ StrictEq(f.difficulty, medium)
                   /\ (LessThan(difficulty, Num(40)) \/ GreaterThan(difficulty, Num(70)))
              \/ StrictEq(f.difficulty, hard)
                   /\ (LessThan(difficulty, Num(80)) \/ GreaterThan(difficulty, Num(100)))

\* The callback of libraryItems.filter in applyFilters.
PassesFilters(item, f) ==
    /\ ~EqualityRejects(item, f, "type")
    /\ ~EqualityRejects(item, f, "status")
    /\ ~RatingRejects(item, f)
    /\ ~DifficultyRejects(item, f)
    /\ ~EqualityRejects(item, f, "language")
    /\ ~EqualityRejects(item, f, "category")

\* A filter written as a forward loop that splices rejected items out of the array
\* it walks, so that the item after a removed one is never tested.
RECURSIVE SpliceLoop(_, _, _)
SpliceLoop(items, f, i) ==
    IF i > Len(items) THEN items
    ELSE IF PassesFilters(items[i], f) THEN SpliceLoop(items, f, i + 1)
    ELSE SpliceLoop(SubSeq(items, 1, i - 1) \o SubSeq(items, i + 1, Len(items)), f, i + 1)

FilterItemsSpliceLoop(items, f) == SpliceLoop(items, f, 1)

\* A filter that collects the passing items newest-first.
RECURSIVE Reverse(_)
Reverse(q) == IF q = <<>> THEN <<>> ELSE Reverse(Tail(q)) \o <<Head(q)>>

FilterItemsReversed(items, f) ==
    LET Test(item) == PassesFilters(item, f)
    IN  Reverse(SelectSeq(items, Test))

\* libraryItems.filter(...) in applyFilters.
FilterItems(items, f) ==
    LET Test(item) == PassesFilters(item, f)
    IN  SelectSeq(items, Test)

\* The cards updateMasonryDisplay renders for items: none for an empty list (the
\* grid then holds the 'Add Your First Item' button); a new card has no mark.
Cards(items) == [i \in 1..Len(items) |-> [item |-> items[i], searchMatch |-> FALSE]]

\* The items of the cards.
CardItems(cards) == [i \in 1..Len(cards) |-> cards[i].item]

\* updatePlanetDisplay(items): the planet is emptied, and for a non-empty list the
\* first createPlanetParticle(item, index, items.length) ends in
\* planet.appendChild on a number, a TypeError, before any particle is attached.
UpdatePlanetDisplayThrows(items) == items # <<>>

\* updateLibraryDisplay: the masonry grid or the planet, as 'currentView' says,
\* is rebuilt from the whole collection.
UpdateLibraryDisplay(items) ==
    IF currentView = "masonry"
    THEN masonryCards' = Cards(items) /\ UNCHANGED planetParticles
    ELSE planetParticles' = items /\ UNCHANGED masonryCards

\* applyFilters: the display part and the closing notification.
ApplyFilters(f) ==
    LET fi == FilterItems(libraryItems, f)
        n == Cardinality({x \in FilterFields : ~StrictEq(f[x], all)})
        threw == currentView # "masonry" /\ UpdatePlanetDisplayThrows(fi)
    IN  /\ filteredItems' = fi
        /\ IF currentView = "masonry"
           THEN masonryCards' = Cards(fi) /\ UNCHANGED planetParticles
           ELSE planetParticles' = <<>> /\ UNCHANGED masonryCards
        /\ uncaught' = threw
        /\ notification' = IF ~threw /\ n > 0 THEN "showing" ELSE notification

\* The filter options of the dropdown: data-filter and data-value of each
\* .dropdown-option; the category options are made of the collection's categories.
CategoryOptions(items) ==
    {all} \cup { items[i].category : i \in { j \in 1..Len(items) :
                    Truthy(items[j].category) /\ trim(items[j].category.s) # <<>> } }

FilterOptions(field, items) ==
    CASE field = "type" -> {all, book}
      [] field = "status" -> {all, unread}
      [] field = "rating" -> {all, Str(<<"4">>), Str(<<"5">>)}
      [] field = "difficulty" -> {all, easy, medium, hard}
      [] field = "language" -> {all, english}
      [] OTHER -> CategoryOptions(items)

Op(op, q, id) == [op |-> op, q |-> q, id |-> id]

\* A click on a filter option: the option's value is stored, then applyFilters.
SelectFilter(field, value) ==
    /\ activeFilters' = [activeFilters EXCEPT ![field] = value]
    /\ ApplyFilters(activeFilters')
    /\ lastOp' = Op("applyFilters", <<>>, Null)
    /\ UNCHANGED <<elsewhereVars, libraryItems, currentView, searchVars, crudVars>>

\* The filters a clear-filters handler stores: every field reset to 'all'.
ClearedFiltersKeepCategory(f) == [NoFilters EXCEPT !.category = f.category]

ClearedFilters(f) == NoFilters

\* A click on the clear-filters button.
ClearFilters ==
    /\ activeFilters' = ClearedFilters(activeFilters)
    /\ LET fi == FilterItems(libraryItems, activeFilters')
           threw == currentView # "masonry" /\ UpdatePlanetDisplayThrows(fi)
       IN  /\ filteredItems' = fi
           /\ IF currentView = "masonry"
              THEN masonryCards' = Cards(fi) /\ UNCHANGED planetParticles
              ELSE planetParticles' = <<>> /\ UNCHANGED masonryCards
           /\ uncaught' = threw
           /\ notification' = IF threw THEN notification ELSE "cleared"
    /\ lastOp' = Op("clearFilters", <<>>, Null)
    /\ UNCHANGED <<elsewhereVars, libraryItems, currentView, searchVars, crudVars>>

\* switchToView: to masonry, updateMasonryDisplay(); to planet, updateLibraryDisplay(),
\* which still reads the old 'currentView'; the new view is stored last.
SwitchToView(viewType) ==
    /\ IF viewType = "masonry"
       THEN masonryCards' = Cards(libraryItems) /\ UNCHANGED planetParticles
       ELSE UpdateLibraryDisplay(libraryItems)
    /\ currentView' = viewType
    /\ uncaught' = FALSE
    /\ lastOp' = Op("switchToView", <<>>, Null)
    /\ UNCHANGED <<elsewhereVars, libraryItems, filterVars, searchVars, crudVars, notification>>

\* ------------------------------------------------------ add, edit, delete

MaxItems == 2

MaxPending == 2

MaxAdds == 1

\* The delay of the add modal's search timer, in milliseconds.
DebounceDelay == 500

\* Array.prototype.findIndex(item => item.id === id), counted from 1; 0 for -1.
FindIndex(items, id) ==
    IF \E i \in 1..Len(items) : StrictEq(items[i].id, id)
    THEN CHOOSE i \in 1..Len(items) :
            /\ StrictEq(items[i].id, id)
            /\ \A j \in 1..(i - 1) : ~StrictEq(items[j].id, id)
    ELSE 0

\* items.splice(index, 1), index counted from 1: nothing goes when index is past
\* the end.
Splice(items, index) ==
    IF index > Len(items)
    THEN items
    ELSE SubSeq(items, 1, index - 1) \o SubSeq(items, index + 1, Len(items))

\* q without its k-th element.
Without(q, k) == SubSeq(q, 1, k - 1) \o SubSeq(q, k + 1, Len(q))

\* The index deleteLibraryItem removes at once the backend has answered: the one
\* it found before the await.
IndexToRemove(request, items) == request.itemIndex

\* deleteLibraryItem(itemId) up to its await: the item is looked up, and for an
\* authenticated user the delete request leaves for Supabase.
DeleteLibraryItem(itemId) ==
    LET itemIndex == FindIndex(libraryItems, itemId)
    IN  IF itemIndex = 0
        THEN /\ notification' = "Error: Item not found."
             /\ lastOp' = Op("deleteNotFound", <<>>, itemId)
             /\ UNCHANGED pendingDeletes
        ELSE /\ pendingDeletes' = Append(pendingDeletes,
                    [itemId |-> itemId, itemIndex |-> itemIndex])
             /\ lastOp' = Op("deleteRequested", <<>>, itemId)
             /\ UNCHANGED notification

\* A click on a masonry card's delete button: onclick="deleteLibraryItem('${item.id}')".
DeleteFromCard(c) ==
    /\ currentView = "masonry"
    /\ Len(pendingDeletes) < MaxPending
    /\ DeleteLibraryItem(TemplateString(masonryCards[c].item.id))
    /\ uncaught' = FALSE
    /\ UNCHANGED <<elsewhereVars,
                   libraryItems, filterVars, viewVars, searchVars, db, nextId, pendingAdds,
                   currentEditingItem>>

\* A click on a planet particle's delete button: deleteLibraryItem(item.id).
DeleteFromParticle(i) ==
    /\ currentView = "planet"
    /\ Len(pendingDeletes) < MaxPending
    /\ DeleteLibraryItem(planetParticles[i].id)
    /\ uncaught' = FALSE
    /\ UNCHANGED <<elsewhereVars,
                   libraryItems, filterVars, viewVars, searchVars, db, nextId, pendingAdds,
                   currentEditingItem>>

\* The rows left by .delete().eq('id', itemId).eq('user_id', currentUser.id).
DeleteRows(rows, itemId) ==
    LET Keep(row) == ~StrictEq(row.id, itemId)
    IN  SelectSeq(rows, Keep)

\* deleteLibraryItem after its await, the backend having deleted the row.
DeleteSucceeds(k) ==
    LET request == pendingDeletes[k]
        items == Splice(libraryItems, IndexToRemove(request, libraryItems))
    IN  /\ db' = DeleteRows(db, request.itemId)
        /\ libraryItems' = items
        /\ UpdateLibraryDisplay(items)
        /\ pendingDeletes' = Without(pendingDeletes, k)
        /\ notification' = "has been deleted."
        /\ uncaught' = FALSE
        /\ lastOp' = Op("deleted", <<>>, request.itemId)
        /\ UNCHANGED <<elsewhereVars, filterVars, currentView, searchVars, nextId, pendingAdds,
                       currentEditingItem>>

\* deleteLibraryItem after its await, the backend having answered with an error.
DeleteFails(k) ==
    /\ pendingDeletes' = Without(pendingDeletes, k)
    /\ notification' = "Error deleting item"
    /\ uncaught' = FALSE
    /\ lastOp' = Op("deleteFailed", <<>>, pendingDeletes[k].itemId)
    /\ UNCHANGED <<elsewhereVars,
                   libraryItems, filterVars, viewVars, searchVars, db, nextId, pendingAdds,
                   currentEditingItem>>

\* Date.now(), the id the submit handler gives a new item.
DateNow == Num(17000)

\* The row addLibraryItem inserts for item (dbItem); a column it leaves out is NULL.
DbItem(item) ==
    LET yearNum == ParseInt(item.publishingYear)
        ratingNum == ParseFloat(item.rating)
        diffNum == ParseInt(item.difficulty)
    IN  [title |-> OrElse(item.title, Str(<<"U", "n", "t", "i", "t", "l", "e", "d">>)),
         author |-> OrElse(item.author, Null),
         type |-> Str(toLowerCase(OrElse(item.type, book).s)),
         category |-> OrElse(item.category, Null),
         status |-> OrElse(item.status, Null),
         language |-> OrElse(item.language, Null),
         publishing_year |-> OrElse(item.publishingYear, Null),
         year |-> IF Truthy(item.publishingYear) /\ yearNum.k = "number"
                  THEN yearNum ELSE Null,
         rating |-> IF Truthy(item.rating) /\ ratingNum.k = "number"
                    THEN ratingNum ELSE Null,
         difficulty |-> IF Truthy(item.difficulty) /\ diffNum.k = "number"
                           /\ diffNum.n >= 10 /\ diffNum.n <= 50
                        THEN diffNum ELSE Null]

\* The CHECK constraints of the libraries table.
RowAccepted(row) ==
    /\ row.type \in {book, paper}
    /\ row.rating = Null \/ (row.rating.n >= 0 /\ row.rating.n <= 50)
    /\ row.difficulty = Null \/ (row.difficulty.n >= 10 /\ row.difficulty.n <= 50)

\* A table that hands out the id of an existing row.
NewIdOfExistingRow(n) == Str(<<"u", "1">>)

\* gen_random_uuid(): the n-th id the table hands out.
NewId(n) == Str(<<"n">> \o NatToString(n))

\* The document's click listener of setupMainNavigation, which every click that
\* bubbles from outside the filter toggle and the dropdown reaches after the
\* target's own listeners: the dropdown is closed and enableSidebar() runs,
\* whatever else is open.
DocumentClick ==
    /\ filterDropdownActive' = FALSE
    /\ sidebarDisabled' = FALSE

\* closeModal(): the overlay and every modal are hidden, enableSidebar() runs,
\* resetAddModal ends the edit, the search and add-modal fields are cleared.
CloseModal ==
    /\ modalOpen' = "none"
    /\ sidebarDisabled' = FALSE
    /\ currentEditingItem' = <<>>
    /\ searchResults' = [kind |-> "prompt", items |-> <<>>]
    /\ addModalInput' = <<>>
    /\ addModalResults' = [kind |-> "blank", query |-> <<>>, results |-> <<>>]

\* A click on a card or a particle: openEditModal(item). The overlay search, when
\* active, is closed and the cards lose their marks; openModal('add-modal') calls
\* disableSidebar(). A particle's listener stops the propagation, a card's click
\* goes on to the document's listener.
OpenEditModal(item) ==
    /\ currentEditingItem' = <<item>>
    /\ modalOpen' = "add-modal"
    /\ IF currentView = "masonry"
       THEN DocumentClick
       ELSE sidebarDisabled' = TRUE /\ UNCHANGED filterDropdownActive
    /\ overlayActive' = FALSE
    /\ IF overlayActive
       THEN masonryCards' = Cards(CardItems(masonryCards))
       ELSE UNCHANGED masonryCards
    /\ uncaught' = FALSE
    /\ lastOp' = Op("openEditModal", <<>>, item.id)
    /\ UNCHANGED <<sessionVars, addModalVars, serviceVars, cameraVars,
                   libraryItems, filterVars, currentView, planetParticles, searchResults,
                   db, nextId, pendingDeletes, pendingAdds, notification>>

\* updateLibraryItem(updatedItem), called by the submit handler when editing.
UpdateLibraryItem(updatedItem) ==
    LET itemIndex == FindIndex(libraryItems, updatedItem.id)
    IN  IF itemIndex # 0
        THEN /\ libraryItems' = [libraryItems EXCEPT ![itemIndex] = updatedItem]
             /\ UpdateLibraryDisplay(libraryItems')
        ELSE UNCHANGED <<libraryItems, masonryCards, planetParticles>>

\* The form's submit handler: an edit is applied at once; an add leaves for
\* Supabase (addLibraryItem up to its await). Either way the success notification
\* is shown, resetAddModal clears window.currentEditingItem and closeModal() runs.
SubmitForm(f) ==
    /\ IF currentEditingItem # <<>>
       THEN /\ UpdateLibraryItem(FormItem(f, currentEditingItem[1].id))
            /\ notification' = "Item updated successfully!"
            /\ lastOp' = Op("updateSubmitted", <<>>, currentEditingItem[1].id)
            /\ UNCHANGED pendingAdds
       ELSE /\ nextId + Len(pendingAdds) <= MaxAdds
            /\ pendingAdds' = Append(pendingAdds, FormItem(f, DateNow))
            /\ notification' = "Item added to your library!"
            /\ lastOp' = Op("addSubmitted", <<>>, DateNow)
            /\ UNCHANGED <<libraryItems, masonryCards, planetParticles>>
    /\ CloseModal
    /\ uncaught' = FALSE
    /\ UNCHANGED <<sessionVars, serviceVars, cameraVars, filterDropdownActive,
                   addModalSearchTimeout, sinceKeystroke, inFlight, lastQuery,
                   filterVars, currentView, overlayActive, db, nextId, pendingDeletes>>

\* addLibraryItem after its await, the row inserted: the item takes the row's id
\* and is pushed.
AddSucceeds(k) ==
    LET row == [id |-> NewId(nextId)] @@ DbItem(pendingAdds[k])
        item == [pendingAdds[k] EXCEPT !.id = row.id]
    IN  /\ RowAccepted(row)
        /\ db' = <<row>> \o db
        /\ nextId' = nextId + 1
        /\ libraryItems' = Append(libraryItems, item)
        /\ UpdateLibraryDisplay(libraryItems')
        /\ pendingAdds' = Without(pendingAdds, k)
        /\ uncaught' = FALSE
        /\ lastOp' = Op("added", <<>>, row.id)
        /\ UNCHANGED <<elsewhereVars, filterVars, currentView, searchVars, pendingDeletes,
                       currentEditingItem, notification>>

\* An addLibraryItem that pushes the item although the insert failed.
AddFailsButPushes(k) ==
    /\ pendingAdds' = Without(pendingAdds, k)
    /\ libraryItems' = Append(libraryItems, pendingAdds[k])
    /\ UpdateLibraryDisplay(libraryItems')
    /\ notification' = "Error saving item"
    /\ uncaught' = FALSE
    /\ lastOp' = Op("addFailed", <<>>, pendingAdds[k].id)
    /\ UNCHANGED <<elsewhereVars, filterVars, currentView, searchVars, db, nextId,
                   pendingDeletes, currentEditingItem>>

\* addLibraryItem after its await, the insert refused or failed.
AddFails(k) ==
    /\ pendingAdds' = Without(pendingAdds, k)
    /\ notification' = "Error saving item"
    /\ uncaught' = FALSE
    /\ lastOp' = Op("addFailed", <<>>, pendingAdds[k].id)
    /\ UNCHANGED <<elsewhereVars,
                   libraryItems, filterVars, viewVars, searchVars, db, nextId, pendingDeletes,
                   currentEditingItem>>

\* ------------------------------------------------------------- search

\* The outcome of one disjunct of performSearch's predicate, item.field
\* .toLowerCase().includes(searchTerm): a field that is no string has no
\* toLowerCase, and the call throws a TypeError.
FieldTest(v, searchTerm) ==
    IF v.k # "string" THEN "throw"
    ELSE IF includes(toLowerCase(v.s), searchTerm) THEN "match"
    ELSE "nomatch"

\* The predicate of performSearch on one item: the disjuncts are evaluated from
\* the left until one matches or throws.
SearchItemTest(item, searchTerm) ==
    LET t1 == FieldTest(item.title, searchTerm)
        t2 == FieldTest(item.author, searchTerm)
        t3 == FieldTest(item.category, searchTerm)
        t4 == FieldTest(item.type, searchTerm)
    IN  IF t1 # "nomatch" THEN t1
        ELSE IF t2 # "nomatch" THEN t2
        ELSE IF t3 # "nomatch" THEN t3
        ELSE t4

PerformSearchThrows(items, searchTerm) ==
    \E i \in 1..Len(items) : SearchItemTest(items[i], searchTerm) = "throw"

\* libraryItems.filter(...) of performSearch, when no item throws.
SearchMatches(items, searchTerm) ==
    LET Hit(item) == SearchItemTest(item, searchTerm) = "match"
    IN  SelectSeq(items, Hit)

\* A search view that lists the whole collection for an empty term.
SearchDisplayWholeOnEmpty(items, searchTerm) ==
    IF searchTerm = <<>>
    THEN [kind |-> "results", items |-> items]
    ELSE IF SearchMatches(items, searchTerm) = <<>>
    THEN [kind |-> "noItemsFound", items |-> <<>>]
    ELSE [kind |-> "results", items |-> SearchMatches(items, searchTerm)]

\* What #search-results holds once performSearch has returned: the prompt for an
\* empty term, else what displaySearchResults writes.
SearchDisplay(items, searchTerm) ==
    IF searchTerm = <<>>
    THEN [kind |-> "prompt", items |-> <<>>]
    ELSE IF SearchMatches(items, searchTerm) = <<>>
    THEN [kind |-> "noItemsFound", items |-> <<>>]
    ELSE [kind |-> "results", items |-> SearchMatches(items, searchTerm)]

\* performSearch(searchTerm, resultsContainer); a TypeError leaves the container
\* as it was.
PerformSearch(searchTerm) ==
    IF searchTerm # <<>> /\ PerformSearchThrows(libraryItems, searchTerm)
    THEN uncaught' = TRUE /\ UNCHANGED searchResults
    ELSE uncaught' = FALSE /\ searchResults' = SearchDisplay(libraryItems, searchTerm)

\* The term without the lowercasing.
SearchTermAsTyped(value) == trim(value)

\* searchInput.value.toLowerCase().trim(), the term both handlers of setupSearch
\* hand to performSearch.
SearchTerm(value) == trim(toLowerCase(value))

\* The click handler of #search-btn.
SearchBtnClick(value) ==
    /\ PerformSearch(SearchTerm(value))
    /\ lastOp' = Op("searchClick", value, Null)
    /\ UNCHANGED <<elsewhereVars, libraryItems, filterVars, viewVars, overlayActive, crudVars,
                   notification>>

\* The input handler of #search-input, once its 300 ms timer has run out.
SearchInputTimeout(value) ==
    /\ PerformSearch(SearchTerm(value))
    /\ lastOp' = Op("searchInput", value, Null)
    /\ UNCHANGED <<elsewhereVars, libraryItems, filterVars, viewVars, overlayActive, crudVars,
                   notification>>

\* forEach(item => item.classList.remove('search-match')) over the cards.
RemoveSearchMatch(cards) ==
    [i \in 1..Len(cards) |-> [cards[i] EXCEPT !.searchMatch = FALSE]]

\* A click on the search link of the navigation: openOverlaySearch(), which
\* opens the overlay only over the masonry view and then calls disableSidebar();
\* the click goes on to the document's listener.
OpenOverlaySearch ==
    /\ IF currentView # "masonry"
       THEN /\ notification' = "Please switch to Masonry view to use search"
            /\ UNCHANGED <<overlayActive, masonryCards>>
       ELSE /\ overlayActive' = TRUE
            /\ masonryCards' = RemoveSearchMatch(masonryCards)
            /\ UNCHANGED notification
    /\ DocumentClick
    /\ uncaught' = FALSE
    /\ lastOp' = Op("openOverlaySearch", <<>>, Null)
    /\ UNCHANGED <<sessionVars, addModalVars, serviceVars, cameraVars, modalOpen,
                   libraryItems, filterVars, currentView, planetParticles, searchResults,
                   crudVars>>

\* A click on the header or the overlay's background, or the Escape key, while
\* the overlay is active: closeOverlaySearch(), which calls enableSidebar(). A
\* click goes on to the document's listener, a key does not.
CloseOverlaySearch ==
    /\ overlayActive
    /\ overlayActive' = FALSE
    /\ masonryCards' = RemoveSearchMatch(masonryCards)
    /\ sidebarDisabled' = FALSE
    /\ \E byKey \in BOOLEAN :
           filterDropdownActive' = IF byKey THEN filterDropdownActive ELSE FALSE
    /\ uncaught' = FALSE
    /\ lastOp' = Op("closeOverlaySearch", <<>>, Null)
    /\ UNCHANGED <<sessionVars, addModalVars, serviceVars, cameraVars, modalOpen,
                   libraryItems, filterVars, currentView, planetParticles, searchResults,
                   crudVars, notification>>

\* libraryItem.field?.toLowerCase().includes(searchTerm): undefined, which is
\* falsy, for an absent field.
OptionalFieldMatch(v, searchTerm) ==
    v.k = "string" /\ includes(toLowerCase(v.s), searchTerm)

\* libraryItem.field?.toString().includes(searchTerm), of the two year fields.
OptionalYearMatch(v, searchTerm) ==
    v.k \in {"string", "number"} /\ includes(OptToString(v).s, searchTerm)

\* isMatch of performOverlaySearch.
OverlayIsMatch(libraryItem, searchTerm) ==
    \/ OptionalFieldMatch(libraryItem.title, searchTerm)
    \/ OptionalFieldMatch(libraryItem.author, searchTerm)
    \/ OptionalFieldMatch(libraryItem.category, searchTerm)
    \/ OptionalFieldMatch(libraryItem.type, searchTerm)
    \/ OptionalYearMatch(libraryItem.publishingYear, searchTerm)
    \/ OptionalYearMatch(libraryItem.year, searchTerm)

\* query.toLowerCase().trim() of performOverlaySearch.
OverlaySearchTerm(query) == trim(toLowerCase(query))

\* The cards once performOverlaySearch(query) has run: the card at DOM index i is
\* judged by libraryItems[i]; a card past the collection's end is left alone.
OverlayMarks(cards, items, query) ==
    IF query = <<>> \/ trim(query) = <<>>
    THEN RemoveSearchMatch(cards)
    ELSE [i \in 1..Len(cards) |->
            IF i > Len(items) THEN cards[i]
            ELSE [cards[i] EXCEPT
                    !.searchMatch = OverlayIsMatch(items[i], OverlaySearchTerm(query))]]

\* The input handler of #overlay-search-input: performOverlaySearch(this.value).
OverlayInput(query) ==
    /\ overlayActive
    /\ masonryCards' = OverlayMarks(masonryCards, libraryItems, query)
    /\ uncaught' = FALSE
    /\ lastOp' = Op("overlayInput", query, Null)
    /\ UNCHANGED <<elsewhereVars,
                   libraryItems, filterVars, currentView, planetParticles, searchVars,
                   crudVars, notification>>

\* --------------------------------------------- modals, sidebar, statistics

\* The days from 1970-01-01 to the day y-m-d of the Gregorian calendar.
DaysFromCivil(y, m, d) ==
    LET yy == IF m <= 2 THEN y - 1 ELSE y
        era == yy \div 400
        yoe == yy - era * 400
        mp == IF m > 2 THEN m - 3 ELSE m + 9
        doy == (153 * mp + 2) \div 5 + d - 1
        doe == yoe * 365 + yoe \div 4 - yoe \div 100 + doy
    IN  era * 146097 + doe - 719468

InvalidDate == [k |-> "Invalid Date", t |-> 0]

\* new Date(v), the time value in seconds: a string of the form
\* YYYY-MM-DDTHH:MM:SSZ is that instant; undefined, like a string of no date
\* form, gives an Invalid Date.
NewDate(v) ==
    LET s == v.s
        Field(from, to) == DigitsValue(SubSeq(s, from, to))
        AllDigits(from, to) == \A i \in from..to : IsDigit(s[i])
    IN  IF /\ v.k = "string"
           /\ Len(s) = 20
           /\ s[5] = "-" /\ s[8] = "-" /\ s[11] = "T"
           /\ s[14] = ":" /\ s[17] = ":" /\ s[20] = "Z"
           /\ AllDigits(1, 4) /\ AllDigits(6, 7) /\ AllDigits(9, 10)
           /\ AllDigits(12, 13) /\ AllDigits(15, 16) /\ AllDigits(18, 19)
        THEN [k |-> "date",
              t |-> ((DaysFromCivil(Field(1, 4), Field(6, 7), Field(9, 10)) * 24
                      + Field(12, 13)) * 60 + Field(15, 16)) * 60 + Field(18, 19)]
        ELSE InvalidDate

\* item.dateAdded: undefined for an item without the key.
DateAdded(item) == IF "dateAdded" \in DOMAIN item THEN item.dateAdded ELSE Undefined

\* (a, b) => new Date(b.dateAdded) - new Date(a.dateAdded), in seconds: NaN when
\* either date is invalid.
RecentFirst(a, b) ==
    LET x == NewDate(DateAdded(b))
        y == NewDate(DateAdded(a))
    IN  IF x.k = "date" /\ y.k = "date" THEN Num((x.t - y.t) * 10) ELSE NaN

\* Array.prototype.sort with the comparator above: the array itself is put in
\* order, a comparator's NaN counts as 0, items that compare equal keep their
\* order. The order is implementation-defined when the comparator is not
\* consistent (equal to b and b equal to c, yet not a equal to c).
ArraySort(items) ==
    LET n == Len(items)
        Sign(a, b) == LET v == RecentFirst(a, b)
                      IN  IF v.k = "nan" \/ v.n = 0 THEN 0 ELSE IF v.n < 0 THEN -1 ELSE 1
        Consistent == \A i, j, l \in 1..n :
            (Sign(items[i], items[j]) = 0 /\ Sign(items[j], items[l]) = 0)
                => Sign(items[i], items[l]) = 0
        Perms == { p \in [1..n -> 1..n] : \A i, j \in 1..n : i # j => p[i] # p[j] }
        Sorted(p) == \A i, j \in 1..n :
            i < j => LET s == Sign(items[p[i]], items[p[j]])
                     IN  s < 0 \/ (s = 0 /\ p[i] < p[j])
    IN  { [i \in 1..n |-> items[p[i]]] : p \in { q \in Perms : Consistent => Sorted(q) } }

\* displayStatistics(): totalItems, itemsByType and itemsByYear read the
\* collection; recentItems is libraryItems.sort(...).slice(0, 5), and sort works
\* on libraryItems itself.
DisplayStatistics == libraryItems' \in ArraySort(libraryItems)

\* A click on the add or the statistics link of the navigation: openModal shows
\* the one modal and calls disableSidebar(); for the statistics
\* displayStatistics() follows. The click goes on to the document's listener.
NavLinkClick(action) ==
    /\ action \in {"add", "stats"}
    /\ modalOpen' = IF action = "add" THEN "add-modal" ELSE "stats-modal"
    /\ DocumentClick
    /\ IF action = "stats" THEN DisplayStatistics ELSE UNCHANGED libraryItems
    /\ uncaught' = FALSE
    /\ lastOp' = Op(action, <<>>, Null)
    /\ UNCHANGED <<sessionVars, addModalVars, serviceVars, cameraVars, filterVars, viewVars,
                   searchVars, crudVars, notification>>

\* A click on the filter toggle: the dropdown opens or closes, and the sidebar is
\* disabled when it opens, enabled when it closes. The propagation is stopped.
FilterToggleClick ==
    LET isOpening == ~filterDropdownActive
    IN  /\ filterDropdownActive' = isOpening
        /\ sidebarDisabled' = isOpening
        /\ uncaught' = FALSE
        /\ lastOp' = Op("filterToggle", <<>>, Null)
        /\ UNCHANGED <<sessionVars, addModalVars, serviceVars, cameraVars, modalOpen,
                       libraryItems, filterVars, viewVars, searchVars, crudVars,
                       notification>>

\* A click on anything without a listener of its own outside the filter toggle
\* and the dropdown (a field of the open modal, the page): the document's
\* listener alone.
ClickOutsideFilter ==
    /\ DocumentClick
    /\ uncaught' = FALSE
    /\ lastOp' = Op("click", <<>>, Null)
    /\ UNCHANGED <<sessionVars, addModalVars, serviceVars, cameraVars, modalOpen,
                   libraryItems, filterVars, viewVars, searchVars, crudVars, notification>>

\* A click on the modal overlay beside the modal: each listener openModal added
\* calls closeModal(); the click goes on to the document's listener.
ModalOverlayClick ==
    /\ modalOpen # "none"
    /\ CloseModal
    /\ filterDropdownActive' = FALSE
    /\ uncaught' = FALSE
    /\ lastOp' = Op("closeModal", <<>>, Null)
    /\ UNCHANGED <<sessionVars, serviceVars, cameraVars, addModalSearchTimeout,
                   sinceKeystroke, inFlight, lastQuery, libraryItems, filterVars, viewVars,
                   overlayActive, db, nextId, pendingDeletes, pendingAdds, notification>>

\* ------------------------------------------------------------ camera modal

MaxPendingCamera == 2
MaxStreams == 2
MaxScans == 2

Listener(button, callback) == [button |-> button, callback |-> callback]

\* EventTarget.addEventListener that appends the listener although the list
\* holds it already.
AppendEventListener(listeners, listener) == Append(listeners, listener)

\* EventTarget.addEventListener('click', callback): a listener the list holds
\* already, the same callback for the same button, is not added again.
AddEventListener(listeners, listener) ==
    IF \E i \in 1..Len(listeners) : listeners[i] = listener
    THEN listeners
    ELSE Append(listeners, listener)

\* setupCameraModalEvents(): the four buttons get the four named functions.
SetupCameraModalEvents(listeners) ==
    AddEventListener(
        AddEventListener(
            AddEventListener(
                AddEventListener(listeners, Listener("close-camera-btn", "closeCameraModal")),
                Listener("capture-btn", "captureImage")),
            Listener("retake-btn", "retakeImage")),
        Listener("process-btn", "processImage"))

\* How many listeners a click on the button runs.
ListenersOf(button) ==
    Cardinality({ i \in 1..Len(clickListeners) : clickListeners[i].button = button })

\* A click on the add modal's scan button: openCameraModal() shows the modal,
\* starts initializeCamera(), which runs up to its first await, and calls
\* setupCameraModalEvents(). The click goes on to the document's listener.
OpenCameraModal ==
    /\ modalOpen = "add-modal"
    /\ ~cameraModalActive
    /\ pendingCamera < MaxPendingCamera
    /\ cameraModalActive' = TRUE
    /\ pendingCamera' = pendingCamera + 1
    /\ clickListeners' = SetupCameraModalEvents(clickListeners)
    /\ DocumentClick
    /\ uncaught' = FALSE
    /\ lastOp' = Op("openCameraModal", <<>>, Null)
    /\ UNCHANGED <<currentStream, liveStreams, nextStream, capturedImageData,
                   processBtnShown, scanRequests, handlerRuns, modalOpen,
                   sessionVars, addModalVars, serviceVars, libraryItems, filterVars,
                   viewVars, searchVars, crudVars, notification>>

\* closeCameraModal(): the modal is hidden, the tracks of the stream that
\* currentStream holds are stopped, resetCameraState() hides the Process button
\* and clears the captured image.
CloseCameraModal ==
    /\ cameraModalActive' = FALSE
    /\ liveStreams' = liveStreams \ {currentStream}
    /\ currentStream' = 0
    /\ capturedImageData' = FALSE
    /\ processBtnShown' = FALSE

\* initializeCamera after its awaits, the camera granted: the stream is stored
\* in currentStream and shown in the video.
CameraGranted ==
    /\ pendingCamera > 0
    /\ nextStream <= MaxStreams
    /\ pendingCamera' = pendingCamera - 1
    /\ currentStream' = nextStream
    /\ liveStreams' = liveStreams \cup {nextStream}
    /\ nextStream' = nextStream + 1
    /\ uncaught' = FALSE
    /\ lastOp' = Op("cameraGranted", <<>>, Null)
    /\ UNCHANGED <<cameraModalActive, capturedImageData, processBtnShown, clickListeners,
                   scanRequests, handlerRuns, sidebarVars,
                   sessionVars, addModalVars, serviceVars, libraryItems, filterVars,
                   viewVars, searchVars, crudVars, notification>>

\* initializeCamera after its awaits, the camera refused or absent: the catch
\* block notifies and calls closeCameraModal().
CameraDenied ==
    /\ pendingCamera > 0
    /\ pendingCamera' = pendingCamera - 1
    /\ CloseCameraModal
    /\ notification' = "Camera access denied or not available"
    /\ uncaught' = FALSE
    /\ lastOp' = Op("cameraDenied", <<>>, Null)
    /\ UNCHANGED <<nextStream, clickListeners, scanRequests, handlerRuns, sidebarVars,
                   sessionVars, addModalVars, serviceVars, libraryItems, filterVars,
                   viewVars, searchVars, crudVars>>

\* A click on the camera modal's close button: every listener of the button
\* runs closeCameraModal(). The click goes on to the document's listener.
CloseBtnClick ==
    /\ cameraModalActive
    /\ handlerRuns' = ListenersOf("close-camera-btn")
    /\ CloseCameraModal
    /\ DocumentClick
    /\ uncaught' = FALSE
    /\ lastOp' = Op("closeCameraModal", <<>>, Null)
    /\ UNCHANGED <<pendingCamera, nextStream, clickListeners, scanRequests, modalOpen,
                   sessionVars, addModalVars, serviceVars, libraryItems, filterVars,
                   viewVars, searchVars, crudVars, notification>>

\* A click on Capture, which is displayed while no image is held: every listener
\* of the button runs captureImage().
CaptureBtnClick ==
    /\ cameraModalActive
    /\ ~capturedImageData
    /\ handlerRuns' = ListenersOf("capture-btn")
    /\ capturedImageData' = TRUE
    /\ processBtnShown' = TRUE
    /\ notification' = "Image captured!"
    /\ DocumentClick
    /\ uncaught' = FALSE
    /\ lastOp' = Op("captureImage", <<>>, Null)
    /\ UNCHANGED <<cameraModalActive, currentStream, liveStreams, pendingCamera,
                   nextStream, clickListeners, scanRequests, modalOpen,
                   sessionVars, addModalVars, serviceVars, libraryItems, filterVars,
                   viewVars, searchVars, crudVars>>

\* A click on Retake, which is displayed once an image is captured: every
\* listener of the button runs retakeImage().
RetakeBtnClick ==
    /\ cameraModalActive
    /\ capturedImageData
    /\ handlerRuns' = ListenersOf("retake-btn")
    /\ capturedImageData' = FALSE
    /\ processBtnShown' = FALSE
    /\ DocumentClick
    /\ uncaught' = FALSE
    /\ lastOp' = Op("retakeImage", <<>>, Null)
    /\ UNCHANGED <<cameraModalActive, currentStream, liveStreams, pendingCamera,
                   nextStream, clickListeners, scanRequests, modalOpen,
                   sessionVars, addModalVars, serviceVars, libraryItems, filterVars,
                   viewVars, searchVars, crudVars, notification>>

\* A click on Process while it is displayed: every listener of the button runs
\* processImage() up to its await. Without a captured image processImage
\* notifies and returns; with one it hides the button and sends the POST to
\* /api/scan.
ProcessBtnClick ==
    LET runs == ListenersOf("process-btn")
    IN  /\ cameraModalActive
        /\ processBtnShown
        /\ scanRequests + runs <= MaxScans
        /\ handlerRuns' = runs
        /\ IF capturedImageData
           THEN /\ scanRequests' = scanRequests + runs
                /\ processBtnShown' = FALSE
                /\ UNCHANGED notification
           ELSE /\ notification' = "No image captured"
                /\ UNCHANGED <<scanRequests, processBtnShown>>
        /\ DocumentClick
        /\ uncaught' = FALSE
        /\ lastOp' = Op("processImage", <<>>, Null)
        /\ UNCHANGED <<cameraModalActive, currentStream, liveStreams, pendingCamera,
                       nextStream, capturedImageData, clickListeners, modalOpen,
                       sessionVars, addModalVars, serviceVars, libraryItems, filterVars,
                       viewVars, searchVars, crudVars>>

\* processImage after its await. A response with success is handed to
\* handleScanResults, which calls closeCameraModal(); any other outcome is
\* notified. The finally block displays the Process button again.
ScanSettles(success) ==
    /\ scanRequests > 0
    /\ scanRequests' = scanRequests - 1
    /\ IF success
       THEN /\ cameraModalActive' = FALSE
            /\ liveStreams' = liveStreams \ {currentStream}
            /\ currentStream' = 0
            /\ capturedImageData' = FALSE
            /\ UNCHANGED notification
       ELSE /\ notification' = "Error processing image"
            /\ UNCHANGED <<cameraModalActive, liveStreams, currentStream,
                           capturedImageData>>
    /\ processBtnShown' = TRUE
    /\ uncaught' = FALSE
    /\ lastOp' = Op("scanSettled", <<>>, Null)
    /\ UNCHANGED <<pendingCamera, nextStream, clickListeners, handlerRuns, sidebarVars,
                   sessionVars, addModalVars, serviceVars, libraryItems, filterVars,
                   viewVars, searchVars, crudVars>>

\* ------------------------------------------------------------ startup

\* The window navigates to the library page (a reload, a link): a new document,
\* no script state, the handlers not yet installed. The table, the local storage
\* and the saved view outlive the page.
NavigateToIndex ==
    /\ pendingDeletes = <<>>
    /\ pendingAdds = <<>>
    /\ libraryItems' = <<>>
    /\ activeFilters' = NoFilters
    /\ masonryCards' = <<>>
    /\ planetParticles' = <<>>
    /\ filteredItems' = <<>>
    /\ searchResults' = [kind |-> "blank", items |-> <<>>]
    /\ overlayActive' = FALSE
    /\ currentEditingItem' = <<>>
    /\ currentUser' = FALSE
    /\ location' = "index"
    /\ notification' = "none"
    /\ uncaught' = FALSE
    /\ lastOp' = Op("navigate", <<>>, Null)
    /\ addModalInput' = <<>>
    /\ addModalSearchTimeout' = <<>>
    /\ sinceKeystroke' = DebounceDelay
    /\ inFlight' = <<>>
    /\ lastQuery' = <<>>
    /\ addModalResults' = [kind |-> "blank", query |-> <<>>, results |-> <<>>]
    /\ UNCHANGED <<currentView, db, nextId, pendingDeletes, pendingAdds, localStorage,
                   serviceVars, sidebarVars, cameraVars>>

\* loadLibraryData for a user: the rows of the table, or, when reading them
\* fails, the array of the local storage.
LoadLibraryData(loadFails) ==
    IF loadFails
    THEN libraryItems' = localStorage /\ UNCHANGED localStorage
    ELSE libraryItems' = Map(LoadItem, db) /\ localStorage' = <<>>

\* The DOMContentLoaded handler: checkAuth, and for a session loadLibraryData,
\* the setup functions, loadSavedView and updateLibraryDisplay. Without a
\* session checkAuth redirects to the landing page and the handler returns.
DOMContentLoaded(session, loadFails) ==
    /\ location = "index"
    /\ lastOp.op = "navigate"
    /\ IF ~session
       THEN /\ location' = "landing"
            /\ UNCHANGED <<libraryItems, localStorage, currentUser, masonryCards,
                           planetParticles, searchResults>>
       ELSE /\ currentUser' = TRUE
            /\ LoadLibraryData(loadFails)
            /\ UpdateLibraryDisplay(libraryItems')
            /\ searchResults' = [kind |-> "prompt", items |-> <<>>]
            /\ UNCHANGED location
    /\ uncaught' = FALSE
    /\ lastOp' = Op("DOMContentLoaded", <<>>, Null)
    /\ UNCHANGED <<filterVars, currentView, overlayActive, crudVars, notification,
                   addModalVars, serviceVars, sidebarVars, cameraVars>>

\* The handlers of the page are installed: DOMContentLoaded got past checkAuth.
HandlersInstalled == location = "index" /\ currentUser

\* ------------------------------------------------- the add modal's search

\* How many performAddModalSearch calls may await their external search at once.
MaxInFlight == 2

\* array.slice(0, n)
Slice0(q, n) == SubSeq(q, 1, IF Len(q) < n THEN Len(q) ELSE n)

\* What GoogleBooksService.searchBooks resolves with for a query: the books the
\* service found, here one book named after the query.
GoogleBooksResults(query) == << [title |-> Str(query)] >>

\* The predicate of the filter over libraryItems in performAddModalSearch: the
\* title is lowered unguarded, author and category only when truthy.
AddModalItemTest(item, searchTerm) ==
    LET Guarded(v) ==
            IF ~Truthy(v) THEN "nomatch" ELSE FieldTest(v, searchTerm)
        t1 == FieldTest(item.title, searchTerm)
        t2 == Guarded(item.author)
        t3 == Guarded(item.category)
    IN  IF t1 # "nomatch" THEN t1
        ELSE IF t2 # "nomatch" THEN t2
        ELSE t3

\* displayAddModalSearchResults(results, query)
DisplayAddModalSearchResults(results, query) ==
    IF Len(results) = 0
    THEN [kind |-> "noResults", query |-> query, results |-> <<>>]
    ELSE [kind |-> "results", query |-> query, results |-> results]

\* What performAddModalSearch(query) leaves in #add-modal-search-results once
\* the external search has settled with the books `external` (none when it was
\* rejected), with the book tab active.
AddModalSearchOutcome(items, query, external) ==
    LET searchTerm == toLowerCase(query)
        FromBooks(b) == [title |-> b.title, source |-> "google_books",
                         searchType |-> "book"]
        FromLibrary(item) == [title |-> item.title, source |-> "library",
                              searchType |-> "existing"]
        Hit(item) == AddModalItemTest(item, searchTerm) = "match"
        Throws == \E i \in 1..Len(items) :
                      AddModalItemTest(items[i], searchTerm) = "throw"
        results == Map(FromBooks, Slice0(external, 5))
                       \o Map(FromLibrary, Slice0(SelectSeq(items, Hit), 5))
    IN  IF Throws
        THEN [kind |-> "failed", query |-> query, results |-> <<>>]
        ELSE DisplayAddModalSearchResults(Slice0(results, 10), query)

\* performAddModalSearch(query) up to its await: the call shows "Searching..."
\* and waits for GoogleBooksService.searchBooks(query).
PerformAddModalSearch(query) ==
    /\ Len(inFlight) < MaxInFlight
    /\ addModalResults' = [kind |-> "searching", query |-> query, results |-> <<>>]
    /\ inFlight' = Append(inFlight, query)
    /\ lastQuery' = query

\* A handler that lets the timer of the keystroke before run.
KeepTimeout(timers) == timers

\* clearTimeout(addModalSearchTimeout)
ClearTimeout(timers) == <<>>

\* The input handler of #add-modal-search.
AddModalInput(value) ==
    LET query == trim(value)
        cleared == ClearTimeout(addModalSearchTimeout)
    IN  /\ HandlersInstalled
        /\ addModalInput' = value
        /\ sinceKeystroke' = 0
        /\ IF Len(query) >= 3
           THEN /\ addModalSearchTimeout' =
                       Append(cleared, [query |-> query, left |-> DebounceDelay])
                /\ UNCHANGED addModalResults
           ELSE /\ addModalSearchTimeout' = cleared
                /\ addModalResults' = [kind |-> "blank", query |-> <<>>,
                                       results |-> <<>>]
        /\ lastOp' = Op("addModalInput", query, Null)
        /\ UNCHANGED <<inFlight, lastQuery>>
        /\ UNCHANGED <<libraryItems, filterVars, viewVars, searchVars, crudVars,
                       sessionVars, serviceVars, sidebarVars, cameraVars,
                       notification, uncaught>>

\* Time passes, by half the timer's delay, while no timer is due.
TimePasses ==
    LET step == DebounceDelay \div 2
        Later(t) == [t EXCEPT !.left = IF t.left < step THEN 0 ELSE t.left - step]
    IN  /\ addModalSearchTimeout # <<>>
        /\ \A i \in 1..Len(addModalSearchTimeout) : addModalSearchTimeout[i].left > 0
        /\ addModalSearchTimeout' = Map(Later, addModalSearchTimeout)
        /\ sinceKeystroke' = IF sinceKeystroke + step > DebounceDelay
                             THEN DebounceDelay ELSE sinceKeystroke + step
        /\ lastOp' = Op("timePasses", <<>>, Null)
        /\ UNCHANGED <<addModalInput, inFlight, lastQuery, addModalResults>>
        /\ UNCHANGED <<libraryItems, filterVars, viewVars, searchVars, crudVars,
                       sessionVars, serviceVars, sidebarVars, cameraVars,
                       notification, uncaught>>

\* The callback of the input handler's setTimeout, run when its delay is over.
AddModalTimeout(i) ==
    /\ i \in 1..Len(addModalSearchTimeout)
    /\ addModalSearchTimeout[i].left = 0
    /\ PerformAddModalSearch(addModalSearchTimeout[i].query)
    /\ addModalSearchTimeout' = Without(addModalSearchTimeout, i)
    /\ lastOp' = Op("addModalTimeout", addModalSearchTimeout[i].query, Null)
    /\ UNCHANGED <<addModalInput, sinceKeystroke>>
    /\ UNCHANGED <<libraryItems, filterVars, viewVars, searchVars, crudVars,
                   sessionVars, serviceVars, sidebarVars, cameraVars,
                       notification, uncaught>>

\* The click handler of #add-modal-search-btn.
AddModalSearchBtnClick ==
    LET query == trim(addModalInput)
    IN  /\ HandlersInstalled
        /\ Len(query) >= 3
        /\ PerformAddModalSearch(query)
        /\ lastOp' = Op("addModalSearchBtn", query, Null)
        /\ UNCHANGED <<addModalInput, addModalSearchTimeout, sinceKeystroke>>
        /\ UNCHANGED <<libraryItems, filterVars, viewVars, searchVars, crudVars,
                       sessionVars, serviceVars, sidebarVars, cameraVars,
                       notification, uncaught>>

\* performAddModalSearch after its await: the external search of the k-th
\* waiting call settles, found or rejected, and the call writes its results.
AddModalSearchSettles(k, found) ==
    LET query == inFlight[k]
        external == IF found THEN GoogleBooksResults(query) ELSE <<>>
    IN  /\ k \in 1..Len(inFlight)
        /\ addModalResults' = AddModalSearchOutcome(libraryItems, query, external)
        /\ inFlight' = Without(inFlight, k)
        /\ lastOp' = Op("addModalSearchSettles", query, Null)
        /\ UNCHANGED <<addModalInput, addModalSearchTimeout, sinceKeystroke, lastQuery>>
        /\ UNCHANGED <<libraryItems, filterVars, viewVars, searchVars, crudVars,
                       sessionVars, serviceVars, sidebarVars, cameraVars,
                       notification, uncaught>>

\* ------------------------------------------------ the server-side services

\* The longest text of Gemini that is looked at.
MaxTextLen == 4

\* A text of Gemini is a sequence of pieces: the two braces, "t" for the member
\* "title":"Dune" and "p" for a word of prose.
Pieces == {"{", "}", "t", "p"}

Texts == UNION { [1..n -> Pieces] : n \in 0..MaxTextLen }

Dune == Str(<<"D", "u", "n", "e">>)
gemini_ai == Str(<<"g", "e", "m", "i", "n", "i", "_", "a", "i">>)
UnknownBook == Str(<<"U", "n", "k", "n", "o", "w", "n", " ", "B", "o", "o", "k">>)
UnknownAuthor ==
    Str(<<"U", "n", "k", "n", "o", "w", "n", " ", "A", "u", "t", "h", "o", "r">>)
General == Str(<<"G", "e", "n", "e", "r", "a", "l">>)
gemini_ai_parsed_fallback ==
    Str(<<"g", "e", "m", "i", "n", "i", "_", "a", "i", "_", "p", "a", "r",
          "s", "e", "d", "_", "f", "a", "l", "l", "b", "a", "c", "k">>)

\* text.match(/\{[\s\S]*\}/): the match starts at the first "{" that has a "}"
\* after it and, [\s\S]* being greedy, ends at the last "}" of the text.
MatchBraces(text) ==
    LET opens == { i \in 1..Len(text) : text[i] = "{" }
        closes == { j \in 1..Len(text) : text[j] = "}" }
        first == CHOOSE i \in opens : \A k \in opens : i <= k
        last == CHOOSE j \in closes : \A k \in closes : k <= j
    IN  IF opens = {} \/ closes = {} THEN [found |-> FALSE, str |-> <<>>]
        ELSE IF last < first THEN [found |-> FALSE, str |-> <<>>]
        ELSE [found |-> TRUE, str |-> SubSeq(text, first, last)]

\* Whether JSON.parse(jsonStr) returns rather than throws: of the texts made of
\* the pieces, {} and {"title":"Dune"} are JSON.
JsonParses(jsonStr) == jsonStr \in { <<"{", "}">>, <<"{", "t", "}">> }

\* JSON.parse(jsonStr), for a text that is JSON.
JsonParse(jsonStr) ==
    [title |-> IF jsonStr = <<"{", "t", "}">> THEN Dune ELSE Undefined]

\* The object parseGeminiResponse builds from the parsed one.
GeminiFields(parsed) ==
    [title |-> OrElse(parsed.title, Null), author |-> Null, isbn |-> Null,
     publisher |-> Null, year |-> Null, description |-> Null, category |-> Null,
     confidence |-> Null, source |-> gemini_ai]

\* The characters of a piece: "l" is the line title: Dune with its line feed,
\* "p" the word ok and a space.
PieceChars(piece) ==
    CASE piece = "{" -> <<"{">>
      [] piece = "}" -> <<"}">>
      [] piece = "t" -> <<"\"", "t", "i", "t", "l", "e", "\"", ":",
                         "\"", "D", "u", "n", "e", "\"">>
      [] piece = "l" -> <<"t", "i", "t", "l", "e", ":", " ", "D", "u", "n", "e", "\n">>
      [] OTHER -> <<"o", "k", " ">>

\* The text as Gemini sent it.
RECURSIVE TextChars(_)
TextChars(text) ==
    IF text = <<>> THEN <<>> ELSE PieceChars(Head(text)) \o TextChars(Tail(text))

\* String.prototype.split(separator), the separator one character.
RECURSIVE split(_, _)
split(s, separator) ==
    IF \A i \in 1..Len(s) : s[i] # separator THEN <<s>>
    ELSE LET i == CHOOSE a \in 1..Len(s) :
                      s[a] = separator /\ \A b \in 1..(a - 1) : s[b] # separator
         IN  <<SubSeq(s, 1, i - 1)>> \o split(SubSeq(s, i + 1, Len(s)), separator)

\* The title fallbackTextParsing(responseText) finds: of the lines that hold
\* "title:", in lower case, the first whose line.split(':')[1]?.trim() is not
\* empty gives it; a line tested while the title is set goes on to the other
\* labels, which no piece holds.
FallbackTitle(responseText) ==
    LET lines == split(TextChars(responseText), "\n")
        label == <<"t", "i", "t", "l", "e", ":">>
        Value(line) == trim(split(line, ":")[2])
        Gives(i) == includes(toLowerCase(lines[i]), label) /\ Value(lines[i]) # <<>>
    IN  IF \E i \in 1..Len(lines) : Gives(i)
        THEN Str(Value(lines[CHOOSE i \in 1..Len(lines) :
                                 Gives(i) /\ \A j \in 1..(i - 1) : ~Gives(j)]))
        ELSE Null

\* fallbackTextParsing(responseText): no piece holds "author:" or another of
\* the labels it looks for but "title:", so the other fields stay null.
FallbackTextParsing(responseText) ==
    [title |-> FallbackTitle(responseText), author |-> Null, isbn |-> Null,
     publisher |-> Null, year |-> Null, description |-> Null, category |-> Null,
     confidence |-> Num(500), source |-> gemini_ai]

\* A parser that goes straight to the scan of the lines.
ParseLinesOnly(responseText) == FallbackTextParsing(responseText)

\* GeminiService.parseGeminiResponse(responseText)
ParseGeminiResponse(responseText) ==
    LET jsonMatch == MatchBraces(responseText)
    IN  IF jsonMatch.found /\ JsonParses(jsonMatch.str)
        THEN GeminiFields(JsonParse(jsonMatch.str))
        ELSE FallbackTextParsing(responseText)

\* The handler's catch branch: /title[:\s]*["']?([^"',\n]+)["']?/i finds, in
\* the member "title":"Dune", the colon between the two quotes; no piece holds
\* "author".
ScanFallback(generatedText) ==
    [title |-> IF \E i \in 1..Len(generatedText) : generatedText[i] = "t"
               THEN Str(<<":">>) ELSE UnknownBook,
     author |-> UnknownAuthor, category |-> General, confidence |-> Num(2),
     source |-> gemini_ai_parsed_fallback, rawResponse |-> generatedText]

\* extractedInfo of the scan handler.
ScanExtract(generatedText) ==
    LET jsonMatch == MatchBraces(generatedText)
    IN  IF jsonMatch.found /\ JsonParses(jsonMatch.str)
        THEN JsonParse(jsonMatch.str)
        ELSE ScanFallback(generatedText)

\* extractField(text, field) of api/scan/process.js: the first match of
\* "field"\s*:\s*"([^"]*)", letters in either case, gives its group, else null.
ExtractField(text, field) ==
    LET s == TextChars(text)
        n == Len(s)
        key == <<"\"">> \o field \o <<"\"">>
        IsSpace(i) == i <= n /\ s[i] \in {" ", "\n"}
        SkipSpace(i) == CHOOSE j \in i..(n + 1) :
                            ~IsSpace(j) /\ \A k \in i..(j - 1) : IsSpace(k)
        Colon(i) == SkipSpace(i + Len(key))
        Quote(i) == SkipSpace(Colon(i) + 1)
        MatchAt(i) ==
            /\ i + Len(key) - 1 <= n
            /\ toLowerCase(SubSeq(s, i, i + Len(key) - 1)) = key
            /\ Colon(i) <= n /\ s[Colon(i)] = ":"
            /\ Quote(i) <= n /\ s[Quote(i)] = "\""
            /\ \E c \in (Quote(i) + 1)..n : s[c] = "\""
        Close(i) == CHOOSE c \in (Quote(i) + 1)..n :
                        s[c] = "\"" /\ \A d \in (Quote(i) + 1)..(c - 1) : s[d] # "\""
    IN  IF \E i \in 1..n : MatchAt(i)
        THEN LET i == CHOOSE a \in 1..n : MatchAt(a) /\ \A b \in 1..(a - 1) : ~MatchAt(b)
             IN  Str(SubSeq(s, Quote(i) + 1, Close(i) - 1))
        ELSE Null

\* GeminiService.parseGeminiResponse(responseText) of api/scan/process.js
ProcessParseGeminiResponse(responseText) ==
    LET jsonMatch == MatchBraces(responseText)
        parsed == JsonParse(jsonMatch.str)
    IN  IF jsonMatch.found /\ JsonParses(jsonMatch.str)
        THEN [title |-> OrElse(parsed.title, Null), author |-> Null, isbn |-> Null,
              publisher |-> Null, year |-> Null, category |-> General,
              confidence |-> Num(5), source |-> gemini_ai]
        ELSE [title |-> ExtractField(responseText, <<"t", "i", "t", "l", "e">>),
              author |-> ExtractField(responseText, <<"a", "u", "t", "h", "o", "r">>),
              isbn |-> ExtractField(responseText, <<"i", "s", "b", "n">>),
              publisher |-> ExtractField(responseText,
                                         <<"p", "u", "b", "l", "i", "s", "h", "e", "r">>),
              year |-> ExtractField(responseText, <<"y", "e", "a", "r">>),
              category |-> OrElse(ExtractField(responseText,
                                      <<"c", "a", "t", "e", "g", "o", "r", "y">>),
                                  General),
              confidence |-> Num(3), source |-> gemini_ai]

SampleBookTitle ==
    Str(<<"S", "a", "m", "p", "l", "e", " ", "B", "o", "o", "k", " ",
          "T", "i", "t", "l", "e">>)
SampleAuthor == Str(<<"S", "a", "m", "p", "l", "e", " ", "A", "u", "t", "h", "o", "r">>)
gemini_ai_fallback ==
    Str(<<"g", "e", "m", "i", "n", "i", "_", "a", "i", "_",
          "f", "a", "l", "l", "b", "a", "c", "k">>)

\* extractedInfo of the older scan handler (part_008).
SampleExtract(generatedText) ==
    LET jsonMatch == MatchBraces(generatedText)
    IN  IF jsonMatch.found /\ JsonParses(jsonMatch.str)
        THEN JsonParse(jsonMatch.str)
        ELSE [title |-> SampleBookTitle, author |-> SampleAuthor, category |-> General,
              confidence |-> Num(3), source |-> gemini_ai_fallback]

Returned(value) == [kind |-> "returned", status |-> 0, value |-> value]
Thrown(message) == [kind |-> "thrown", status |-> 0, value |-> message]
Response(status, body) == [kind |-> "response", status |-> status, value |-> body]

\* What the services leave alone: the page.
pageVars == <<libraryItems, filterVars, viewVars, searchVars, crudVars, sessionVars,
              addModalVars, sidebarVars, cameraVars, notification, uncaught, lastOp>>

\* GoogleBooksService.searchBooks(query) of the server: apiKey tells whether the
\* key is configured, response what axios.get did.
SearchBooks(apiKey, response) ==
    /\ serviceCall' = [service |-> "searchBooks", apiKey |-> apiKey,
                       response |-> response]
    /\ serviceReply' =
           IF ~apiKey THEN Thrown("Failed to search books")
           ELSE IF response = "networkError" THEN Thrown("Failed to search books")
           ELSE IF response = "noItems" THEN Returned(<<>>)
           ELSE Returned(<< [title |-> Dune] >>)
    /\ UNCHANGED pageVars

\* The browser puppeteer.launch gave, as searchPapers leaves it: browser.close()
\* is the last statement of the try block, reached when nothing before it
\* threw; the catch block has no reference to the browser.
BrowserLeft(primary) ==
    IF primary = "launchFails" THEN "none"
    ELSE IF primary = "papers" THEN "closed"
    ELSE "open"

\* GoogleScholarService.searchPapers(query): primary tells what the scrape with
\* Puppeteer did, fallback what fallbackSearch did when it was called.
SearchPapers(primary, fallback) ==
    /\ serviceCall' = [service |-> "searchPapers", primary |-> primary,
                       fallback |-> fallback, browser |-> BrowserLeft(primary)]
    /\ serviceReply' =
           IF primary = "papers" THEN Returned(<< [title |-> Dune] >>)
           ELSE IF fallback = "papers" THEN Returned(<< [title |-> Dune] >>)
           ELSE IF fallback = "noPapers" THEN Returned(<<>>)
           ELSE Thrown("Failed to search Google Scholar")
    /\ UNCHANGED pageVars

\* The scan handler: precheck tells which of its checks of the request fails,
\* if any, gemini what the call of the Gemini API did, generatedText the text
\* of a well-formed answer.
ScanHandler(precheck, gemini, generatedText) ==
    /\ serviceCall' = [service |-> "scan", precheck |-> precheck, gemini |-> gemini,
                       text |-> generatedText]
    /\ serviceReply' =
           IF precheck = "OPTIONS" THEN Response(200, [ended |-> TRUE])
           ELSE IF precheck = "notPOST"
           THEN Response(405, [error |-> "Method not allowed"])
           ELSE IF precheck = "noImage"
           THEN Response(400, [success |-> FALSE, error |-> "No image data provided"])
           ELSE IF precheck = "noImageType"
           THEN Response(400, [success |-> FALSE, error |-> "Invalid image format"])
           ELSE IF precheck = "noApiKey"
           THEN Response(500, [success |-> FALSE,
                               error |-> "Gemini API key not configured"])
           ELSE IF gemini = "networkError"
           THEN Response(500, [success |-> FALSE, error |-> "fetch failed"])
           ELSE IF gemini = "httpError"
           THEN Response(500, [success |-> FALSE, error |-> "Gemini API error"])
           ELSE IF gemini = "noCandidates"
           THEN Response(500, [success |-> FALSE,
                               error |-> "Invalid response from Gemini API"])
           ELSE Response(200, [success |-> TRUE, data |-> ScanExtract(generatedText)])
    /\ UNCHANGED pageVars

\* A call of GeminiService.parseGeminiResponse.
ParseGeminiResponseCall(responseText) ==
    /\ serviceCall' = [service |-> "parseGeminiResponse", text |-> responseText]
    /\ serviceReply' = Returned(ParseGeminiResponse(responseText))
    /\ UNCHANGED pageVars

Parsers == {"GeminiService", "process", "handler"}

\* A call of one of the three parsers of Gemini's text, with the text Gemini
\* has sent: parseGeminiResponse of the service class, parseGeminiResponse of
\* api/scan/process.js, and the parsing of the older scan handler.
ParseCall(parser) ==
    LET text == serviceCall.text
    IN
    /\ serviceCall.service \in {"text"} \cup Parsers
    /\ serviceCall' = [service |-> parser, text |-> text]
    /\ serviceReply' =
           IF parser = "GeminiService" THEN Returned(ParseGeminiResponse(text))
           ELSE IF parser = "process" THEN Returned(ProcessParseGeminiResponse(text))
           ELSE Returned(SampleExtract(text))
    /\ UNCHANGED pageVars

\* How many industryIdentifiers a volume of Google Books carries at most.
MaxIdentifiers == 3

ISBN_13 == Str(<<"I", "S", "B", "N", "_", "1", "3">>)
ISBN_10 == Str(<<"I", "S", "B", "N", "_", "1", "0">>)
NoISBN == Str(<<"N", "o", " ", "I", "S", "B", "N">>)

\* An entry of industryIdentifiers, and the array of them.
Identifier(type, identifier) ==
    [k |-> "object", type |-> type, identifier |-> identifier]

Array(items) == [k |-> "array", items |-> items]

\* The entries of industryIdentifiers: each type with the identifier Google
\* Books gives for it, never an empty one.
IndustryIdentifier ==
    { Identifier(ISBN_13, Str(<<"9", "7", "8", "0">>)),
      Identifier(ISBN_10, Str(<<"0", "4", "4", "1">>)),
      Identifier(Str(<<"O", "T", "H", "E", "R">>), Str(<<"O", "C", "L", "C">>)) }

\* items.find(id => id.type === type): the first such entry, or undefined.
FindType(items, type) ==
    LET Is(i) == StrictEq(items[i].type, type)
    IN  IF \E i \in 1..Len(items) : Is(i)
        THEN items[CHOOSE i \in 1..Len(items) : Is(i) /\ \A j \in 1..(i - 1) : ~Is(j)]
        ELSE Undefined

\* An extraction that takes the first entry that is of either ISBN type.
ExtractFirstISBN(identifiers) ==
    LET items == identifiers.items
        Is(i) == items[i].type \in {ISBN_13, ISBN_10}
    IN  IF identifiers.k # "array" THEN Null
        ELSE IF \E i \in 1..Len(items) : Is(i)
        THEN items[CHOOSE i \in 1..Len(items) :
                       Is(i) /\ \A j \in 1..(i - 1) : ~Is(j)].identifier
        ELSE Null

\* GoogleBooksService.extractISBN(identifiers) of the server; identifiers is
\* undefined for a volume without industryIdentifiers.
ExtractISBN(identifiers) ==
    IF identifiers.k # "array" THEN Null
    ELSE LET isbn13 == FindType(identifiers.items, ISBN_13)
             isbn10 == FindType(identifiers.items, ISBN_10)
         IN  IF isbn13.k = "object" THEN isbn13.identifier
             ELSE IF isbn10.k = "object" THEN isbn10.identifier
             ELSE Null

\* entry?.identifier
OptIdentifier(entry) == IF entry.k = "undefined" THEN Undefined ELSE entry.identifier

\* The isbn of transformResults of the page's GoogleBooksService.
TransformIsbn(identifiers) ==
    IF identifiers.k = "undefined" THEN NoISBN
    ELSE OrElse(OptIdentifier(FindType(identifiers.items, ISBN_13)),
                OrElse(OptIdentifier(FindType(identifiers.items, ISBN_10)), NoISBN))

\* The normalization of a volume's identifiers by the server's formatter.
ExtractISBNCall ==
    /\ serviceCall.service \in {"volume", "extractISBN", "transformResults"}
    /\ serviceCall' = [serviceCall EXCEPT !.service = "extractISBN"]
    /\ serviceReply' = Returned(ExtractISBN(serviceCall.identifiers))
    /\ UNCHANGED pageVars

\* The normalization of the same volume by the page's transformResults.
TransformResultsCall ==
    /\ serviceCall.service \in {"volume", "extractISBN", "transformResults"}
    /\ serviceCall' = [serviceCall EXCEPT !.service = "transformResults"]
    /\ serviceReply' = Returned(TransformIsbn(serviceCall.identifiers))
    /\ UNCHANGED pageVars

\* The Express server: the methods and paths of the requests looked at, and
\* what the body parsers make of the request's body.
Methods == {"GET", "POST", "PUT", "DELETE"}

Paths == {"/health", "/api/books/search", "/api/scholar/search", "/api/books/isbn",
          "/api/books", "/nowhere"}

BodyErrors == {"none", "malformed", "tooLarge", "unnamed"}

\* The error a body parser passes on: express.json gives its errors a status
\* and a message; "unnamed" is an error without either.
BodyError(kind) ==
    IF kind = "malformed" THEN [message |-> "Unexpected token", status |-> 400]
    ELSE IF kind = "tooLarge" THEN [message |-> "request entity too large", status |-> 413]
    ELSE [message |-> "", status |-> 0]

\* errorHandler(err, req, res, next)
ErrorHandler(err) ==
    LET message == IF err.message # "" THEN err.message ELSE "Internal Server Error"
        status == IF err.status # 0 THEN err.status ELSE 500
    IN  Response(status, [success |-> FALSE, error |-> message])

\* A request to the Express server, through the body parsers, the health
\* check, the two routers and the 404 handler, in the order they are mounted.
ServerRequest(method, path, hasQuery, bodyError) ==
    /\ serviceCall' = [service |-> "server", method |-> method, path |-> path,
                       hasQuery |-> hasQuery, bodyError |-> bodyError]
    /\ serviceReply' =
           IF bodyError # "none" THEN ErrorHandler(BodyError(bodyError))
           ELSE IF method = "GET" /\ path = "/health"
           THEN Response(200, [status |-> "OK"])
           ELSE IF method = "GET" /\ path \in {"/api/books/search", "/api/scholar/search"}
           THEN IF ~hasQuery
                THEN Response(400, [success |-> FALSE, error |-> "Query required"])
                ELSE Response(200, [success |-> TRUE, data |-> <<path>>, count |-> 1])
           ELSE Response(404, [error |-> "Endpoint not found", path |-> path])
    /\ UNCHANGED pageVars

\* ------------------------------------------- the page's Semantic Scholar service

maxRetries == 2

\* What an attempt's fetch and the reading of its response can end in.
FetchOutcomes == {"papers", "noData", "httpError", "abort", "failedToFetch", "networkError"}

\* The error an unsuccessful attempt throws, the message as its words: the abort
\* of the 15 s timeout, fetch's TypeError of Chromium and of Firefox, the Error
\* thrown for a response that is not ok.
FetchError(outcome) ==
    IF outcome = "abort"
    THEN [name |-> "AbortError", message |-> <<"The", "user", "aborted", "a", "request.">>]
    ELSE IF outcome = "failedToFetch"
    THEN [name |-> "TypeError", message |-> <<"Failed", "to", "fetch">>]
    ELSE IF outcome = "networkError"
    THEN [name |-> "TypeError",
          message |-> <<"NetworkError", "when", "attempting", "to", "fetch", "resource.">>]
    ELSE [name |-> "Error", message |-> <<"HTTP", "error!", "status:", "500">>]

\* A retry condition that looks at the count only.
ShouldRetryAnyError(error, retryCount) == retryCount < maxRetries

\* (error.name === 'AbortError' || error.message.includes('Failed to fetch'))
\* && retryCount < maxRetries
ShouldRetry(error, retryCount) ==
    /\ error.name = "AbortError" \/ includes(error.message, <<"Failed", "to", "fetch">>)
    /\ retryCount < maxRetries

\* SemanticScholarService.searchPapers(query) up to the await of its fetch.
SemanticSearchPapers(query) ==
    /\ serviceCall.service = "SemanticScholar" => serviceCall.phase = "done"
    /\ serviceCall' = [service |-> "SemanticScholar", query |-> query, retryCount |-> 0,
                       phase |-> "fetch", attempts |-> <<>>]
    /\ serviceReply' = [kind |-> "none"]
    /\ UNCHANGED pageVars

\* searchPapers after the await of an attempt: the papers are returned, or the
\* catch block decides between the retry, after its delay, and the empty list.
SemanticFetchSettles(outcome) ==
    LET attempts == Append(serviceCall.attempts, outcome)
    IN  /\ serviceCall.service = "SemanticScholar"
        /\ serviceCall.phase = "fetch"
        /\ IF outcome \in {"papers", "noData"}
           THEN /\ serviceCall' = [serviceCall EXCEPT !.phase = "done", !.attempts = attempts]
                /\ serviceReply' = Returned(IF outcome = "papers"
                                            THEN << [title |-> Dune] >> ELSE <<>>)
           ELSE IF ShouldRetry(FetchError(outcome), serviceCall.retryCount)
           THEN /\ serviceCall' = [serviceCall EXCEPT !.phase = "delay",
                                                      !.attempts = attempts]
                /\ UNCHANGED serviceReply
           ELSE /\ serviceCall' = [serviceCall EXCEPT !.phase = "done", !.attempts = attempts]
                /\ serviceReply' = Returned(<<>>)
        /\ UNCHANGED pageVars

\* The retry's delay is over: this.searchPapers(query, retryCount + 1) up to
\* the await of its fetch.
SemanticRetry ==
    /\ serviceCall.service = "SemanticScholar"
    /\ serviceCall.phase = "delay"
    /\ serviceCall' = [serviceCall EXCEPT !.phase = "fetch", !.retryCount = @ + 1]
    /\ UNCHANGED <<serviceReply, pageVars>>

\* ---------------------------------------------------------- specifications

MaxFilterItems == 2

Views == {"masonry", "planet"}

\* The items load, add and edit can place in the collection.
AppItems ==
    { LoadItem(r) : r \in DbRows } \cup
    { FormItem(f, Str(<<"u", "-">> \o f.title.s)) : f \in FormInputs }

\* Every modal and the filter dropdown are closed, the sidebar is enabled.
SidebarIdle ==
    /\ modalOpen = "none"
    /\ filterDropdownActive = FALSE
    /\ sidebarDisabled = FALSE

\* The camera modal has not been opened: no listener is installed yet.
CameraIdle ==
    /\ cameraModalActive = FALSE
    /\ currentStream = 0
    /\ liveStreams = {}
    /\ pendingCamera = 0
    /\ nextStream = 1
    /\ capturedImageData = FALSE
    /\ processBtnShown = FALSE
    /\ clickListeners = <<>>
    /\ scanRequests = 0
    /\ handlerRuns = 0

\* The page once DOMContentLoaded has run for the collection items.
LoadedPage(items, view) ==
    /\ SidebarIdle
    /\ CameraIdle
    /\ libraryItems = items
    /\ activeFilters = NoFilters
    /\ currentView = view
    /\ masonryCards = IF view = "masonry" THEN Cards(items) ELSE <<>>
    /\ planetParticles = IF view = "masonry" THEN <<>> ELSE items
    /\ filteredItems = <<>>
    /\ searchResults = [kind |-> "prompt", items |-> <<>>]
    /\ overlayActive = FALSE
    /\ nextId = 1
    /\ pendingDeletes = <<>>
    /\ pendingAdds = <<>>
    /\ currentEditingItem = <<>>
    /\ notification = "none"
    /\ uncaught = FALSE
    /\ lastOp = Op("load", <<>>, Null)
    /\ addModalInput = <<>>
    /\ addModalSearchTimeout = <<>>
    /\ sinceKeystroke = DebounceDelay
    /\ inFlight = <<>>
    /\ lastQuery = <<>>
    /\ addModalResults = [kind |-> "blank", query |-> <<>>, results |-> <<>>]

\* No service has been called.
NoCall ==
    /\ serviceCall = [service |-> "none"]
    /\ serviceReply = [kind |-> "none"]

Loaded(items, view) == LoadedPage(items, view) /\ NoCall

\* The session of the pages below: a user is signed in, stored is what the local
\* storage holds.
Authenticated(stored) ==
    /\ currentUser = TRUE
    /\ localStorage = stored
    /\ location = "index"

\* The page of an authenticated user once loadLibraryData has read the rows. The
\* user deletes and adds items in the view the page came up in.
Init ==
    \E rows \in DistinctSeqs(DbRows, MaxItems), view \in Views :
        /\ db = rows
        /\ Authenticated(<<>>)
        /\ Loaded(Map(LoadItem, rows), view)

Next ==
    \/ \E c \in 1..Len(masonryCards) : DeleteFromCard(c)
    \/ \E i \in 1..Len(planetParticles) : DeleteFromParticle(i)
    \/ \E k \in 1..Len(pendingDeletes) : DeleteSucceeds(k)
    \/ \E k \in 1..Len(pendingDeletes) : DeleteFails(k)
    \/ \E f \in FormInputs : SubmitForm(f)
    \/ \E k \in 1..Len(pendingAdds) : AddSucceeds(k)
    \/ \E k \in 1..Len(pendingAdds) : AddFails(k)

Spec == Init /\ [][Next]_vars

\* The same handlers over a collection of at most MaxCrudItems loaded rows.
MaxCrudItems == 1

InitCrud ==
    \E rows \in DistinctSeqs(DbRows, MaxCrudItems), view \in Views :
        /\ db = rows
        /\ Authenticated(<<>>)
        /\ Loaded(Map(LoadItem, rows), view)

SpecCrud == InitCrud /\ [][Next]_vars

InitFilter ==
    \E items \in DistinctSeqs(AppItems, MaxFilterItems), view \in Views :
        /\ db = <<>>
        /\ Authenticated(<<>>)
        /\ Loaded(items, view)

NextFilter ==
    \/ \E field \in FilterFields :
         \E value \in FilterOptions(field, libraryItems) : SelectFilter(field, value)
    \/ ClearFilters

SpecFilter == InitFilter /\ [][NextFilter]_vars

MaxSearchItems == 2

\* What the user types into a search box.
Queries ==
    { <<>>, <<" ">>, <<"d", "u", "n", "e">>, <<"D", "U", "N", "E">>, <<"a", "i">> }

\* The collection loadLibraryData leaves: rows of the table, or the stored array.
SearchItems == { LoadItem(row) : row \in DbRows } \cup StoredItems

InitSearch ==
    \E items \in DistinctSeqs(SearchItems, MaxSearchItems), view \in Views :
        /\ db = <<>>
        /\ Authenticated(IF \E i \in 1..Len(items) : items[i] \in StoredItems
                         THEN items ELSE <<>>)
        /\ Loaded(items, view)

NextSearch ==
    \/ \E value \in Queries : SearchBtnClick(value)
    \/ \E value \in Queries : SearchInputTimeout(value)
    \/ OpenOverlaySearch
    \/ CloseOverlaySearch
    \/ \E query \in Queries : OverlayInput(query)
    \/ \E viewType \in Views : SwitchToView(viewType)

SpecSearch == InitSearch /\ [][NextSearch]_vars

\* An authenticated user edits items and reloads the page.
NextEdit ==
    \/ \E c \in 1..Len(masonryCards) :
         /\ HandlersInstalled /\ currentView = "masonry"
         /\ OpenEditModal(masonryCards[c].item)
    \/ \E i \in 1..Len(planetParticles) :
         /\ HandlersInstalled /\ currentView = "planet"
         /\ OpenEditModal(planetParticles[i])
    \/ \E f \in FormInputs : HandlersInstalled /\ SubmitForm(f)
    \/ NavigateToIndex
    \/ \E session \in BOOLEAN, loadFails \in BOOLEAN : DOMContentLoaded(session, loadFails)

SpecEdit == Init /\ [][NextEdit]_vars

\* The add modal's search over a loaded collection.
MaxModalItems == 1

AddModalValues ==
    { <<"d", "u">>, <<"d", "u", "n">>, <<"d", "u", "n", "e", " ">> }

InitAddSearch ==
    \E rows \in DistinctSeqs(DbRows, MaxModalItems) :
        /\ db = rows
        /\ Authenticated(<<>>)
        /\ Loaded(Map(LoadItem, rows), "masonry")

NextAddSearch ==
    \/ \E value \in AddModalValues : AddModalInput(value)
    \/ TimePasses
    \/ \E i \in 1..Len(addModalSearchTimeout) : AddModalTimeout(i)
    \/ AddModalSearchBtnClick
    \/ \E k \in 1..Len(inFlight), found \in BOOLEAN : AddModalSearchSettles(k, found)

SpecAddSearch == InitAddSearch /\ [][NextAddSearch]_vars

\* The server-side services, each called with every outcome of what it calls.
InitServices ==
    /\ db = <<>>
    /\ Authenticated(<<>>)
    /\ Loaded(<<>>, "masonry")

NextServices ==
    \/ \E apiKey \in BOOLEAN, response \in {"networkError", "noItems", "items"} :
           SearchBooks(apiKey, response)
    \/ \E primary \in {"papers", "launchFails", "gotoTimeout", "selectorTimeout",
                       "evaluateError"},
          fallback \in {"papers", "noPapers", "networkError"} :
           SearchPapers(primary, fallback)
    \/ \E precheck \in {"OPTIONS", "notPOST", "noImage", "noImageType", "noApiKey"} :
           ScanHandler(precheck, "notCalled", <<>>)
    \/ \E gemini \in {"networkError", "httpError", "noCandidates"} :
           ScanHandler("ok", gemini, <<>>)
    \/ \E generatedText \in Texts : ScanHandler("ok", "text", generatedText)
    \/ \E responseText \in Texts : ParseGeminiResponseCall(responseText)

SpecServices == InitServices /\ [][NextServices]_vars

\* The parsers of Gemini's text over texts that may hold lines of key: value.
MaxParseLen == 3

ParseTexts == UNION { [1..n -> Pieces \cup {"l"}] : n \in 0..MaxParseLen }

\* Gemini has sent a text; no parser has been called with it yet.
InitParse ==
    \E text \in ParseTexts :
        /\ db = <<>>
        /\ Authenticated(<<>>)
        /\ LoadedPage(<<>>, "masonry")
        /\ serviceCall = [service |-> "text", text |-> text]
        /\ serviceReply = [kind |-> "none"]

NextParse == \E parser \in Parsers : ParseCall(parser)

SpecParse == InitParse /\ [][NextParse]_vars

\* A volume of Google Books, with or without industryIdentifiers.
Volumes ==
    {Undefined}
        \cup { Array(items) :
                   items \in UNION { [1..n -> IndustryIdentifier] : n \in 0..MaxIdentifiers } }

InitIsbn ==
    \E identifiers \in Volumes :
        /\ db = <<>>
        /\ Authenticated(<<>>)
        /\ LoadedPage(<<>>, "masonry")
        /\ serviceCall = [service |-> "volume", identifiers |-> identifiers]
        /\ serviceReply = [kind |-> "none"]

NextIsbn == ExtractISBNCall \/ TransformResultsCall

SpecIsbn == InitIsbn /\ [][NextIsbn]_vars

\* The server API: the Express server and the scan function.
NextServer ==
    \/ \E method \in Methods, path \in Paths, hasQuery \in BOOLEAN,
          bodyError \in BodyErrors : ServerRequest(method, path, hasQuery, bodyError)
    \/ \E precheck \in {"OPTIONS", "notPOST", "noImage", "noImageType", "noApiKey"} :
           ScanHandler(precheck, "notCalled", <<>>)
    \/ \E gemini \in {"networkError", "httpError", "noCandidates"} :
           ScanHandler("ok", gemini, <<>>)

SpecServer == InitServices /\ [][NextServer]_vars

\* The overlay search over a display that the filter may have narrowed.
NextOverlay ==
    \/ \E field \in FilterFields :
         \E value \in FilterOptions(field, libraryItems) : SelectFilter(field, value)
    \/ ClearFilters
    \/ OpenOverlaySearch
    \/ CloseOverlaySearch
    \/ \E query \in Queries : OverlayInput(query)

SpecOverlay == InitSearch /\ [][NextOverlay]_vars

\* The modals, the overlay search and the filter dropdown over the library page.
NextSidebar ==
    \/ \E action \in {"add", "stats"} : NavLinkClick(action)
    \/ FilterToggleClick
    \/ ClickOutsideFilter
    \/ ModalOverlayClick
    \/ OpenOverlaySearch
    \/ CloseOverlaySearch
    \/ \E c \in 1..Len(masonryCards) : OpenEditModal(masonryCards[c].item)
    \/ \E i \in 1..Len(planetParticles) : OpenEditModal(planetParticles[i])

SpecSidebar == InitSearch /\ [][NextSidebar]_vars

\* The camera modal of the add modal, on the page of a user without items.
InitCamera ==
    /\ db = <<>>
    /\ Authenticated(<<>>)
    /\ Loaded(<<>>, "masonry")

NextCamera ==
    \/ NavLinkClick("add")
    \/ OpenCameraModal
    \/ CameraGranted
    \/ CameraDenied
    \/ CloseBtnClick
    \/ CaptureBtnClick
    \/ RetakeBtnClick
    \/ ProcessBtnClick
    \/ \E success \in BOOLEAN : ScanSettles(success)

SpecCamera == InitCamera /\ [][NextCamera]_vars

MaxStatsItems == 3

\* The dateAdded of an item: absent for an item made of a row of the table, an
\* ISO string for one the submit handler made or a backup holds.
DatesAdded ==
    { Undefined,
      Str(<<"2", "0", "2", "4", "-", "0", "1", "-", "1", "5", "T",
            "1", "0", ":", "3", "0", ":", "0", "0", "Z">>),
      Str(<<"2", "0", "2", "4", "-", "0", "2", "-", "0", "1", "T",
            "0", "9", ":", "4", "5", ":", "0", "0", "Z">>) }

\* The submit handler's itemData with its dateAdded.
Dated(item, dateAdded) ==
    IF dateAdded = Undefined THEN item ELSE item @@ [dateAdded |-> dateAdded]

StatsItems ==
    { Dated(FormItem(f, Str(<<"u", "-">> \o f.title.s)), d) : f \in FormInputs,
                                                              d \in DatesAdded }

\* The statistics modal over a collection whose items may carry a dateAdded.
InitStats ==
    \E items \in DistinctSeqs(StatsItems, MaxStatsItems), view \in Views :
        /\ db = <<>>
        /\ Authenticated(<<>>)
        /\ Loaded(items, view)

NextStats ==
    \/ NavLinkClick("stats")
    \/ ModalOverlayClick

SpecStats == InitStats /\ [][NextStats]_vars

\* The calls of the page's Semantic Scholar service, one after the other.
NextSemantic ==
    \/ \E query \in Queries : SemanticSearchPapers(query)
    \/ \E outcome \in FetchOutcomes : SemanticFetchSettles(outcome)
    \/ SemanticRetry

SpecSemantic == InitServices /\ [][NextSemantic]_vars

MaxStored == 1

\* What an earlier visit may have left under 'digitalLibrary'.
StoredArrays ==
    DistinctSeqs(StoredItems \cup { FormItem(f, DateNow) : f \in FormInputs }, MaxStored)

\* The library page as the browser first shows it, the DOMContentLoaded handler
\* not yet run; a session may or may not exist.
InitStartup ==
    \E rows \in DistinctSeqs(DbRows, MaxItems), stored \in StoredArrays, view \in Views :
        /\ SidebarIdle
        /\ CameraIdle
        /\ db = rows
        /\ nextId = 1
        /\ localStorage = stored
        /\ currentUser = FALSE
        /\ location = "index"
        /\ libraryItems = <<>>
        /\ activeFilters = NoFilters
        /\ currentView = view
        /\ masonryCards = <<>>
        /\ planetParticles = <<>>
        /\ filteredItems = <<>>
        /\ searchResults = [kind |-> "blank", items |-> <<>>]
        /\ overlayActive = FALSE
        /\ pendingDeletes = <<>>
        /\ pendingAdds = <<>>
        /\ currentEditingItem = <<>>
        /\ notification = "none"
        /\ uncaught = FALSE
        /\ lastOp = Op("navigate", <<>>, Null)
        /\ addModalInput = <<>>
        /\ addModalSearchTimeout = <<>>
        /\ sinceKeystroke = DebounceDelay
        /\ inFlight = <<>>
        /\ lastQuery = <<>>
        /\ addModalResults = [kind |-> "blank", query |-> <<>>, results |-> <<>>]
        /\ serviceCall = [service |-> "none"]
        /\ serviceReply = [kind |-> "none"]

NextStartup ==
    \/ \E session \in BOOLEAN, loadFails \in BOOLEAN : DOMContentLoaded(session, loadFails)
    \/ NavigateToIndex

SpecStartup == InitStartup /\ [][NextStartup]_vars

\* ------------------------------------------------- the filter's contract

\* The stated predicates, written from the contract and independently of the
\* callback above. A field is present when it is neither undefined, null nor ''.
Present(v) == v.k \notin {"undefined", "null"} /\ v # Empty

\* The number a present field holds (in tenths), when it holds one.
HoldsNumber(v) == Present(v) /\ ToNumber(v).k = "number"

EqualTo(item, f, field) ==
    f[field] = all \/ (Present(item[field]) /\ item[field] = f[field])

RatingAtLeast(item, f) ==
    f.rating = all
    \/ (HoldsNumber(item.rating) /\ ToNumber(item.rating).n >= ToNumber(f.rating).n)

BucketLow(b) == IF b = easy THEN 10 ELSE IF b = medium THEN 40 ELSE 80

BucketHigh(b) == IF b = easy THEN 30 ELSE IF b = medium THEN 70 ELSE 100

DifficultyInBucket(item, f) ==
    f.difficulty = all
    \/ (HoldsNumber(item.difficulty)
          /\ ToNumber(item.difficulty).n >= BucketLow(f.difficulty)
          /\ ToNumber(item.difficulty).n <= BucketHigh(f.difficulty))

SatisfiesAll(item, f) ==
    /\ EqualTo(item, f, "type")
    /\ EqualTo(item, f, "status")
    /\ RatingAtLeast(item, f)
    /\ DifficultyInBucket(item, f)
    /\ EqualTo(item, f, "language")
    /\ EqualTo(item, f, "category")

\* The items the current view shows.
Displayed == IF currentView = "masonry" THEN CardItems(masonryCards) ELSE planetParticles

\* The last handler ran applyFilters.
Filtered == lastOp.op \in {"applyFilters", "clearFilters"}

\* Only the filter named field is active.
OnlyActive(field) ==
    /\ activeFilters[field] # all
    /\ \A x \in FilterFields \ {field} : activeFilters[x] = all

\* q is made of items of p, in the order they have in p.
IsSubsequence(q, p) ==
    \E g \in [1..Len(q) -> 1..Len(p)] :
        /\ \A i \in 1..Len(q) : p[g[i]] = q[i]
        /\ \A i, j \in 1..Len(q) : i < j => g[i] < g[j]

\* C2: after applyFilters the view shows exactly the items of libraryItems, in
\* order, that satisfy every active predicate (type, status, language and category
\* by exact equality, a missing field never passing; rating by threshold;
\* difficulty by bucket).
C2_DisplaysConjunction ==
    Filtered =>
        LET Test(item) == SatisfiesAll(item, activeFilters)
        IN  Displayed = SelectSeq(libraryItems, Test)

\* C3: with only the rating filter active at threshold T, the result of
\* applyFilters is exactly the items holding a rating >= T, and no item whose
\* rating is undefined (null in the form, NULL in the row it was loaded from) is in it.
C3_RatingThreshold ==
    (Filtered /\ OnlyActive("rating")) =>
        LET Test(item) == RatingAtLeast(item, activeFilters)
        IN  /\ filteredItems = SelectSeq(libraryItems, Test)
            /\ \A i \in 1..Len(filteredItems) :
                 /\ Present(filteredItems[i].rating)
                 /\ \A r \in DbRows :
                      r.rating = Null => filteredItems[i] # LoadItem(r)

\* C3 witness: a threshold has kept an item and dropped an item loaded from a row
\* without a rating.
C3_Witness ==
    /\ Filtered
    /\ OnlyActive("rating")
    /\ filteredItems # <<>>
    /\ \E i \in 1..Len(libraryItems), r \in DbRows :
         r.rating = Null /\ libraryItems[i] = LoadItem(r)

\* C4: with only the difficulty filter active, an item is in the result iff its
\* difficulty is present and lies in the bucket's inclusive range.
C4_DifficultyBucket ==
    (Filtered /\ OnlyActive("difficulty")) =>
        LET Test(item) == DifficultyInBucket(item, activeFilters)
        IN  filteredItems = SelectSeq(libraryItems, Test)

\* C5: with all six filters 'all', and after every press of clear-filters, the
\* filter yields the collection itself, same items in the same order; in the
\* masonry view that is also what is shown.
C5_AllShowsEverything ==
    (lastOp.op = "clearFilters" \/ (Filtered /\ activeFilters = NoFilters)) =>
        /\ filteredItems = libraryItems
        /\ currentView = "masonry" => CardItems(masonryCards) = libraryItems

\* C5 witness: clear-filters was pressed over a collection of two items.
C5_Witness ==
    /\ lastOp.op = "clearFilters"
    /\ Len(libraryItems) >= 2
    /\ filteredItems = libraryItems

\* C6: a filter handler leaves libraryItems as it was, stores in activeFilters only
\* what the click chose (one field, or all six reset), and its result is a
\* subsequence of libraryItems in the same relative order.
C6_FilterFrame ==
    [][ Filtered' =>
          /\ libraryItems' = libraryItems
          /\ IsSubsequence(filteredItems', libraryItems)
          /\ \/ activeFilters' = NoFilters
             \/ Cardinality({x \in FilterFields : activeFilters'[x] # activeFilters[x]}) <= 1
      ]_vars

\* C6 witness: a filter is active and has kept two items.
C6_Witness ==
    /\ lastOp.op = "applyFilters"
    /\ activeFilters # NoFilters
    /\ Len(filteredItems) >= 2

\* C7: filtering the filtered result again, with the same configuration, returns it.
C7_Idempotent ==
    Filtered => FilterItems(filteredItems, activeFilters) = filteredItems

\* C7 witness: a filter has dropped an item and kept one.
C7_Witness ==
    /\ lastOp.op = "applyFilters"
    /\ filteredItems # <<>>
    /\ Len(filteredItems) < Len(libraryItems)

\* ------------------------------------------------------ delete's contract

\* items without the item whose id is id.
RemoveById(items, id) ==
    LET Keep(item) == item.id # id
    IN  SelectSeq(items, Keep)

\* C1: a deleteLibraryItem(id) that completes successfully for an id in the
\* collection removes exactly the item with that id and leaves the others, in
\* their order, whatever other requests were in flight.
C1_DeleteRemovesExactlyThatItem ==
    [][ (lastOp'.op = "deleted" /\ \E i \in 1..Len(libraryItems) :
                                      libraryItems[i].id = lastOp'.id)
          => libraryItems' = RemoveById(libraryItems, lastOp'.id) ]_vars

\* ------------------------------------------------------ search's contract

SearchOps == {"searchClick", "searchInput"}

\* The lowercased term is a substring of the lowercased field; an absent field
\* does not match.
FieldContains(v, term) == v.k = "string" /\ includes(toLowerCase(v.s), term)

MatchesQuery(item, term) ==
    \/ FieldContains(item.title, term)
    \/ FieldContains(item.author, term)
    \/ FieldContains(item.category, term)
    \/ FieldContains(item.type, term)

ItemsMatching(items, term) ==
    LET Hit(item) == MatchesQuery(item, term)
    IN  SelectSeq(items, Hit)

\* C8: for a non-empty query the library search returns, without raising,
\* exactly the items, in collection order, one of whose title, author, category
\* and type contains the lowercased query, an absent field counting as a
\* non-match.
C8_SearchReturnsMatches ==
    (lastOp.op \in SearchOps /\ trim(lastOp.q) # <<>>)
        => /\ ~uncaught
           /\ searchResults.items = ItemsMatching(libraryItems, trim(toLowerCase(lastOp.q)))

SameUpToCase(a, b) == toLowerCase(a) = toLowerCase(b)

\* C9: the library search and the overlay search select for a query what they
\* select for every string that differs from it in letter case only.
C9_CaseInsensitive ==
    \A q \in Queries :
        SameUpToCase(q, lastOp.q) =>
            /\ (lastOp.op \in SearchOps /\ ~uncaught)
                  => searchResults = SearchDisplay(libraryItems, SearchTerm(q))
            /\ (lastOp.op \in SearchOps /\ uncaught)
                  => PerformSearchThrows(libraryItems, SearchTerm(q))
            /\ lastOp.op = "overlayInput"
                  => \A i \in 1..Len(masonryCards) :
                        i <= Len(libraryItems) =>
                           masonryCards[i].searchMatch
                              = (/\ trim(q) # <<>>
                                 /\ OverlayIsMatch(libraryItems[i], OverlaySearchTerm(q)))

\* An upper-case query has found the item whose title is written in mixed case.
C9_Witness ==
    /\ lastOp.op \in SearchOps
    /\ lastOp.q = <<"D", "U", "N", "E">>
    /\ searchResults.kind = "results"
    /\ \E i \in 1..Len(searchResults.items) :
          searchResults.items[i].title = Str(<<"D", "u", "n", "e">>)

Blank(q) == trim(q) = <<>>

NoCardMarked == \A i \in 1..Len(masonryCards) : ~masonryCards[i].searchMatch

\* C10 (as stated): for an empty or whitespace-only query the library search
\* yields the unfiltered collection and the overlay search leaves no card with
\* the search-match mark.
C10_EmptyQueryAsStated ==
    /\ (lastOp.op \in SearchOps /\ Blank(lastOp.q)) => searchResults.items = libraryItems
    /\ (lastOp.op = "overlayInput" /\ Blank(lastOp.q)) => NoCardMarked

\* C10 (amended): for an empty or whitespace-only query the library search
\* shows its prompt and lists no item, and the overlay search leaves no card
\* with the search-match mark.
C10_EmptyQuery ==
    /\ (lastOp.op \in SearchOps /\ Blank(lastOp.q))
          => searchResults = [kind |-> "prompt", items |-> <<>>]
    /\ (lastOp.op = "overlayInput" /\ Blank(lastOp.q)) => NoCardMarked

\* A whitespace-only library search over a collection that is not empty.
C10_Witness ==
    /\ lastOp.op \in SearchOps
    /\ lastOp.q = <<" ">>
    /\ libraryItems # <<>>

\* -------------------------------------------------- persistence's contract

\* The field values loadLibraryData would return for the row, against the item's.
SameAsReloaded(item, row) ==
    /\ LoadItem(row).title = item.title
    /\ LoadItem(row).author = item.author
    /\ LoadItem(row).category = item.category

\* C11: for an authenticated session, once an edit of an existing item has been
\* submitted the table's row with that id holds the edited values, so that a
\* reload of the collection returns them.
C11_EditWrittenToBackend ==
    lastOp.op = "updateSubmitted" =>
        \A i \in 1..Len(libraryItems) :
            libraryItems[i].id = lastOp.id =>
                \E r \in 1..Len(db) :
                    db[r].id = lastOp.id /\ SameAsReloaded(libraryItems[i], db[r])

\* C12: when the page starts without a session, the client stays on the library
\* page and its collection is the array of the local storage.
C12_FallsBackToLocalStorage ==
    (lastOp.op = "DOMContentLoaded" /\ ~currentUser)
        => location = "index" /\ libraryItems = localStorage

\* ----------------------------------------------------- failure's contract

ErrorNotifications == {"Error saving item", "Error deleting item"}

\* C13: an insert or a delete the backend fails or rejects ends with an error
\* notification, is not sent again, and neither the call nor its failure changes
\* the in-memory collection.
C13_FailureLeavesCollection ==
    [][ /\ lastOp'.op \in {"addSubmitted", "deleteRequested", "addFailed", "deleteFailed"}
           => libraryItems' = libraryItems
        /\ lastOp'.op \in {"addFailed", "deleteFailed"}
           => /\ notification' \in ErrorNotifications
              /\ db' = db
              /\ Len(pendingAdds') + Len(pendingDeletes')
                    = Len(pendingAdds) + Len(pendingDeletes) - 1 ]_vars

\* An insert has failed for a user whose collection holds items.
C13_Witness ==
    /\ lastOp.op = "addFailed"
    /\ notification = "Error saving item"
    /\ libraryItems # <<>>

\* --------------------------------------------------- validation's contract

InRange(v, low, high) ==
    ToNumber(v).k = "number" /\ ToNumber(v).n >= low /\ ToNumber(v).n <= high

\* The item has its required title, a rating, if any, within [0,5] and a
\* difficulty, if any, within [1,5] (numbers are held in tenths).
ValidItem(item) ==
    /\ Present(item.title)
    /\ Present(item.rating) => InRange(item.rating, 0, 50)
    /\ Present(item.difficulty) => InRange(item.difficulty, 10, 50)

\* C14: a submitted item without title or with a rating outside [0,5] or a
\* difficulty outside [1,5] is rejected at the form: it is neither sent to the
\* backend nor admitted into the collection.
C14_InvalidInputRejected ==
    /\ \A k \in 1..Len(pendingAdds) : ValidItem(pendingAdds[k])
    /\ lastOp.op = "added" => ValidItem(libraryItems[Len(libraryItems)])

\* ---------------------------------------------------- the item invariants

\* C15: no two items of the in-memory collection have the same id.
C15_UniqueIds ==
    \A i, j \in 1..Len(libraryItems) :
        i # j => libraryItems[i].id # libraryItems[j].id

\* An item has been added to a collection that held one or more.
C15_Witness ==
    /\ lastOp.op = "added"
    /\ Len(libraryItems) >= 2

\* C16: every item of the in-memory collection that has a rating has it within
\* [0,5], and every item that has a difficulty has it within [1,5].
C16_RatingAndDifficultyInRange ==
    \A i \in 1..Len(libraryItems) :
        /\ Present(libraryItems[i].rating) => InRange(libraryItems[i].rating, 0, 50)
        /\ Present(libraryItems[i].difficulty)
              => InRange(libraryItems[i].difficulty, 10, 50)

\* C17: the add modal never shows the results of a search other than the one
\* issued last: a call of performAddModalSearch whose external search settles
\* after a later call was started does not write its results.
C17_StaleResultDiscarded ==
    addModalResults.kind \in {"results", "noResults"}
        => addModalResults.query = lastQuery

\* C18: typing in the add modal's search box starts no search by itself and
\* leaves at most one timer; a search started by the timer starts only when the
\* whole delay has passed since the last keystroke, is for the query then in
\* the box, and leaves no timer behind to start another.
C18_Debounced ==
    [][/\ lastOp'.op = "addModalInput"
            => inFlight' = inFlight /\ Len(addModalSearchTimeout') <= 1
       /\ lastOp'.op = "addModalTimeout" /\ inFlight' # inFlight
            => /\ sinceKeystroke >= DebounceDelay
               /\ lastOp'.q = trim(addModalInput)
               /\ Len(inFlight') = Len(inFlight) + 1
               /\ inFlight'[Len(inFlight')] = trim(addModalInput)
               /\ addModalSearchTimeout' = <<>>]_vars

\* The timer has started the search for "dune", typed last as "dune ".
C18_Witness ==
    /\ lastOp.op = "addModalTimeout"
    /\ addModalInput = <<"d", "u", "n", "e", " ">>
    /\ inFlight = << <<"d", "u", "n", "e">> >>
    /\ addModalSearchTimeout = <<>>

\* C19: when the one external call a service makes fails (the network, the
\* scrape's selector, the form of Gemini's output), the service gives its caller
\* an empty list or a placeholder record: it throws nothing and answers with no
\* error status.
CallFailed ==
    \/ /\ serviceCall.service = "searchBooks"
       /\ serviceCall.apiKey
       /\ serviceCall.response = "networkError"
    \/ /\ serviceCall.service = "searchPapers"
       /\ serviceCall.primary # "papers"
    \/ /\ serviceCall.service = "scan"
       /\ serviceCall.precheck = "ok"
       /\ \/ serviceCall.gemini # "text"
          \/ ~(MatchBraces(serviceCall.text).found
                   /\ JsonParses(MatchBraces(serviceCall.text).str))

C19_FailureDegrades ==
    CallFailed =>
        /\ serviceReply.kind # "thrown"
        /\ serviceReply.kind = "response" => serviceReply.status = 200

\* The balanced spans of a text: from a "{" to the "}" that closes it.
Depth(text, i, j) ==
    Cardinality({ k \in i..j : text[k] = "{" })
        - Cardinality({ k \in i..j : text[k] = "}" })

BalancedSpan(text, i, j) ==
    /\ text[i] = "{"
    /\ Depth(text, i, j) = 0
    /\ \A k \in i..(j - 1) : Depth(text, i, k) > 0

HasBalancedSpan(text) ==
    \E i \in 1..Len(text), j \in 1..Len(text) : i < j /\ BalancedSpan(text, i, j)

FirstBalancedSpan(text) ==
    LET starts == { i \in 1..Len(text) :
                       \E j \in (i + 1)..Len(text) : BalancedSpan(text, i, j) }
        i == CHOOSE a \in starts : \A b \in starts : a <= b
        j == CHOOSE b \in (i + 1)..Len(text) : BalancedSpan(text, i, b)
    IN  SubSeq(text, i, j)

\* A text that holds a JSON object as its first balanced span, prose around it.
EmbedsObject(text) ==
    HasBalancedSpan(text) /\ JsonParses(FirstBalancedSpan(text))

\* C20: from a text of Gemini that holds one JSON object within prose, whatever
\* the prose holds, the normalization returns the fields of the first balanced
\* {...} span: parseGeminiResponse the fields it keeps of that object, the scan
\* handler the object.
C20_ExtractsEmbeddedObject ==
    /\ serviceCall.service = "parseGeminiResponse" /\ EmbedsObject(serviceCall.text)
           => serviceReply.value
                  = GeminiFields(JsonParse(FirstBalancedSpan(serviceCall.text)))
    /\ (/\ serviceCall.service = "scan"
        /\ serviceCall.precheck = "ok"
        /\ serviceCall.gemini = "text"
        /\ EmbedsObject(serviceCall.text))
           => serviceReply.value.data = JsonParse(FirstBalancedSpan(serviceCall.text))

\* The JSON the extraction finds in a text, if any: the span the pattern
\* matches, when it is JSON.
JsonFound(text) == MatchBraces(text).found /\ JsonParses(MatchBraces(text).str)

TitleFound(text) == IF MatchBraces(text).str = <<"{", "t", "}">> THEN Dune ELSE Null

\* A text with a line of key: value or a member "key":"value".
HasKeyValue(text) == \E i \in 1..Len(text) : text[i] \in {"l", "t"}

\* What each parser returns from the JSON it found.
FromJson(parser, text) ==
    IF parser = "GeminiService"
    THEN [title |-> TitleFound(text), author |-> Null, isbn |-> Null,
          publisher |-> Null, year |-> Null, description |-> Null,
          category |-> Null, confidence |-> Null, source |-> gemini_ai]
    ELSE IF parser = "process"
    THEN [title |-> TitleFound(text), author |-> Null, isbn |-> Null,
          publisher |-> Null, year |-> Null, category |-> General,
          confidence |-> Num(5), source |-> gemini_ai]
    ELSE [title |-> IF TitleFound(text) = Null THEN Undefined ELSE Dune]

\* The fixed record of each parser.
Placeholder(parser) ==
    IF parser = "GeminiService"
    THEN [title |-> Null, author |-> Null, isbn |-> Null, publisher |-> Null,
          year |-> Null, description |-> Null, category |-> Null,
          confidence |-> Num(500), source |-> gemini_ai]
    ELSE IF parser = "process"
    THEN [title |-> Null, author |-> Null, isbn |-> Null, publisher |-> Null,
          year |-> Null, category |-> General, confidence |-> Num(3),
          source |-> gemini_ai]
    ELSE [title |-> SampleBookTitle, author |-> SampleAuthor, category |-> General,
          confidence |-> Num(3), source |-> gemini_ai_fallback]

IdentifiersOf(identifiers, type) ==
    IF identifiers.k # "array" THEN {}
    ELSE { identifiers.items[i].identifier :
               i \in { j \in 1..Len(identifiers.items) :
                           identifiers.items[j].type = type } }

\* C22: from a volume with an ISBN_13 entry the normalization takes the
\* ISBN_13 identifier, wherever the ISBN_10 entry stands; it takes the ISBN_10
\* identifier only for a volume without ISBN_13 entry.
C22_PrefersIsbn13 ==
    serviceCall.service \in {"extractISBN", "transformResults"} =>
        LET isbn13 == IdentifiersOf(serviceCall.identifiers, ISBN_13)
            isbn10 == IdentifiersOf(serviceCall.identifiers, ISBN_10)
        IN  /\ isbn13 # {} => serviceReply.value \in isbn13
            /\ isbn13 = {} /\ isbn10 # {} => serviceReply.value \in isbn10
            /\ serviceReply.value \in isbn10 => isbn13 = {}

\* A volume with the ISBN_10 entry before the ISBN_13 entry has been
\* normalized.
C22_Witness ==
    /\ serviceCall.service \in {"extractISBN", "transformResults"}
    /\ serviceCall.identifiers.k = "array"
    /\ Len(serviceCall.identifiers.items) = 2
    /\ serviceCall.identifiers.items[1].type = ISBN_10
    /\ serviceCall.identifiers.items[2].type = ISBN_13
    /\ serviceReply.value = serviceCall.identifiers.items[2].identifier

\* C23: every response of the server API with an error status has a body with
\* success false and the message under error.
C23_ErrorShape ==
    serviceReply.kind = "response" /\ serviceReply.status >= 400 =>
        /\ {"success", "error"} \subseteq DOMAIN serviceReply.value
        /\ serviceReply.value.success = FALSE

\* C24: after performOverlaySearch(query), each displayed masonry card is
\* marked search-match exactly when the item rendered in it matches the query,
\* also when applyFilters has narrowed the cards to a part of the collection.
C24_MarksRenderedItem ==
    lastOp.op = "overlayInput" =>
        \A c \in 1..Len(masonryCards) :
            masonryCards[c].searchMatch
                = (/\ trim(lastOp.q) # <<>>
                   /\ OverlayIsMatch(masonryCards[c].item, OverlaySearchTerm(lastOp.q)))

\* C25: while a modal, the overlay search or the filter dropdown is open, the
\* sidebar is disabled (main-nav carries sidebar-disabled).
C25_SidebarDisabledWhileOpen ==
    (modalOpen # "none" \/ overlayActive \/ filterDropdownActive) => sidebarDisabled

\* C26: each click on Process runs processImage once and sends one POST to
\* /api/scan when an image is captured, none when there is none; each click on
\* Capture runs captureImage once, however often the modal was opened before.
C26_OneRunPerClick ==
    [][ /\ lastOp'.op = "processImage" =>
             /\ handlerRuns' = 1
             /\ scanRequests' = scanRequests + (IF capturedImageData THEN 1 ELSE 0)
        /\ lastOp'.op = "captureImage" => handlerRuns' = 1 ]_vars

\* The C26 case: the camera was granted on two openings of the modal, and a
\* click on Process has sent its request.
C26_Witness ==
    /\ nextStream > 2
    /\ lastOp.op = "processImage"
    /\ scanRequests = 1

\* C26 as stated: each click on Process sends exactly one POST to /api/scan.
C26_OneRequestPerClick ==
    [][ lastOp'.op = "processImage" => scanRequests' = scanRequests + 1 ]_vars

\* C27: once the camera modal is closed and no initializeCamera is pending, no
\* stream is held and every acquired track is stopped.
C27_NoStreamAfterClose ==
    (~cameraModalActive /\ pendingCamera = 0) => (currentStream = 0 /\ liveStreams = {})

\* C28: opening the statistics (displayStatistics) leaves the collection as it
\* is, the same items in the same order.
C28_StatisticsReadOnly ==
    [][ lastOp'.op = "stats" => libraryItems' = libraryItems ]_vars

\* C29: a browser that searchPapers launched is closed when searchPapers
\* returns or throws, on the success path and on every failure path.
C29_BrowserClosed ==
    serviceCall.service = "searchPapers" => serviceCall.browser # "open"

\* C30: searchPapers makes at most maxRetries + 1 attempts; an attempt is
\* followed by another only after an abort or a 'Failed to fetch' error, never
\* after an HTTP error status; the call ends by returning, with the empty list
\* when its last attempt failed.
C30_BoundedRetries ==
    serviceCall.service = "SemanticScholar" =>
        LET attempts == serviceCall.attempts
            n == Len(attempts)
        IN  /\ n <= maxRetries + 1
            /\ \A i \in 1..n :
                   (i < n \/ serviceCall.phase = "delay")
                       => attempts[i] \in {"abort", "failedToFetch"}
            /\ n = maxRetries + 1 => serviceCall.phase = "done"
            /\ serviceCall.phase = "done" =>
                   /\ serviceReply.kind = "returned"
                   /\ attempts[n] # "papers" => serviceReply.value = <<>>

\* The C30 case: the third attempt failed too, and the call has ended.
C30_Witness ==
    /\ serviceCall.service = "SemanticScholar"
    /\ serviceCall.phase = "done"
    /\ Len(serviceCall.attempts) = maxRetries + 1
    /\ serviceCall.attempts[maxRetries + 1] = "abort"
    /\ serviceReply = Returned(<<>>)

====
